---------------------------- MODULE Spec2Model ----------------------------
(***************************************************************************)
(* A model of the tracer client library (github.com/tracer/tracer):        *)
(*   - the batching gRPC shipper (GRPC.Store, GRPC.loop, GRPC.flush),      *)
(*   - spans and the tracer (Span mutators, Finish, Tracer.StartSpan),     *)
(*   - samplers and the text-map / binary propagation codecs,              *)
(*   - the ID generator,                                                   *)
(*   - the PostgreSQL storage (Store, TraceByID, SpanByID, QueryTraces,    *)
(*     Purge) and the server's ingestion endpoint.                         *)
(*                                                                         *)
(* Time is counted in milliseconds since 0001-01-01 00:00:00 UTC, so the   *)
(* zero time.Time is 0 and a negative value is an instant before year 1,   *)
(* which the protobuf timestamp type cannot hold.                          *)
(***************************************************************************)
EXTENDS Integers, Sequences, FiniteSets, TLC

VARIABLES
  ch,        \* GRPC.ch: the buffered intake channel (FIFO of RawSpan)
  queue,     \* GRPC.queue: the pending batch
  stored,    \* GRPC.stored: the tracer_stored_spans_total counter
  dropped,   \* GRPC.dropped: the tracer_dropped_spans_total counter
  loopPC,    \* where the goroutine running GRPC.loop is: "select" or "rpc"
  pbs,       \* the request of the last RPC flush issued (flush's pbs)
  tick,      \* whether a tick is waiting in the ticker's channel t.C
  calls,     \* how many times GRPC.Store has been called
  taken,     \* how many spans the worker has received from ch
  sent,      \* SpanID -> in how many RPC requests a span with that ID was put
  flushErr,  \* what the last finished flush returned: "none", "nil" or "err"
  spans,     \* the Span objects the tracer has created, in creation order
  finished,  \* the spans (indices) on which Finish has been called
  sampler,   \* Tracer.Sampler and its state
  sampleCalls, \* how many times Sampler.Sample has been called
  lastSample,  \* what the last call of Sampler.Sample returned
  now,       \* the clock read by time.Now()
  op,        \* the last call made on the tracer API, with its arguments
  db,        \* the PostgreSQL database: the tables spans, tags, relations
  history    \* the spans that Storage.Store has stored, in commit order

shipperVars == <<ch, queue, stored, dropped, loopPC, pbs, tick, calls, taken,
                 sent, flushErr>>

samplerVars == <<sampler, sampleCalls, lastSample>>

tracerVars == <<spans, finished, sampler, sampleCalls, lastSample, now, op>>

storageVars == <<db, history>>

vars == <<ch, queue, stored, dropped, loopPC, pbs, tick, calls, taken, sent,
          flushErr, spans, finished, sampler, sampleCalls, lastSample, now, op,
          db, history>>

-----------------------------------------------------------------------------
(* Bounds of the model *)

\* GRPCOptions.QueueSize (1024 by default)
QueueSize == 2

\* The model stops calling GRPC.Store after this many calls.
MaxCalls == 3 * QueueSize

-----------------------------------------------------------------------------
(* Values *)

EmptyMap == <<>>

\* time.Time.IsZero
IsZero(t) == t = 0

\* ptypes.TimestampProto(t) fails for an instant before 0001-01-01.
TimestampProtoOK(t) == t >= 0

\* A RawSpan value.
RawSpan(id, traceID, parentID, flags, service, name, start, finish, tags, logs) ==
  [SpanID |-> id, TraceID |-> traceID, ParentID |-> parentID,
   Flags |-> flags, Baggage |-> EmptyMap,
   ServiceName |-> service, OperationName |-> name,
   StartTime |-> start, FinishTime |-> finish, Tags |-> tags, Logs |-> logs]

\* fmt.Sprintf("%v", v): a value carries its printed form.
Sprint(v) == v.text

-----------------------------------------------------------------------------
(* The shipper: GRPC *)

\* A channel of three times the queue size.
ChCapTriple == 3 * QueueSize

\* A batch that is flushed at twice the queue size.
QueueCapDouble == 2 * QueueSize

\* cap(g.ch): make(chan RawSpan, grpcOpts.QueueSize*2)
ChCap == 2 * QueueSize

\* cap(g.queue): make([]RawSpan, 0, grpcOpts.QueueSize)
QueueCap == QueueSize

\* A Store that does not count the spans it drops.
StoreUncounted(sp) ==
  /\ calls' = calls + 1
  /\ dropped' = dropped
  /\ IF Len(ch) < 2 * QueueSize
       THEN ch' = Append(ch, sp) /\ stored' = stored + 1
       ELSE ch' = ch /\ stored' = stored

\* GRPC.Store: a non-blocking send on g.ch, counted as stored or as dropped.
Store(sp) ==
  /\ calls' = calls + 1
  /\ IF Len(ch) < ChCap
       THEN /\ ch' = Append(ch, sp)
            /\ stored' = stored + 1
            /\ dropped' = dropped
       ELSE /\ ch' = ch
            /\ stored' = stored
            /\ dropped' = dropped + 1

\* The conversion of one span in flush succeeds when both of its
\* timestamps convert.
SpanConvOK(sp) == TimestampProtoOK(sp.StartTime) /\ TimestampProtoOK(sp.FinishTime)

\* The wire tags of a span: one entry per tag, and one timestamped entry
\* per log whose timestamp converts.  Go ranges over the tag map in no
\* fixed order, so the tag entries are kept as a set; the log entries keep
\* their order.
PBTags(sp) ==
  [tags |-> {[Key |-> k, Value |-> Sprint(sp.Tags[k])] : k \in DOMAIN sp.Tags},
   logs |-> LET ok == SelectSeq(sp.Logs, LAMBDA l : TimestampProtoOK(l.Timestamp))
            IN  [i \in 1..Len(ok) |->
                   [Key |-> ok[i].Event, Value |-> Sprint(ok[i].Payload),
                    Time |-> ok[i].Timestamp]]]

\* The pb.Span built from a RawSpan.
PBSpan(sp) ==
  [SpanId |-> sp.SpanID, ParentId |-> sp.ParentID, TraceId |-> sp.TraceID,
   ServiceName |-> sp.ServiceName, OperationName |-> sp.OperationName,
   StartTime |-> sp.StartTime, FinishTime |-> sp.FinishTime,
   Flags |-> sp.Flags, Tags |-> PBTags(sp)]

\* A request for which one span that does not convert is the end of the
\* whole batch.
PBSpansAllOrNothing(q) ==
  IF \A i \in 1..Len(q) : SpanConvOK(q[i])
    THEN [i \in 1..Len(q) |-> PBSpan(q[i])]
    ELSE <<>>

\* The request flush builds from the batch q: the spans that convert.
PBSpans(q) ==
  LET ok == SelectSeq(q, SpanConvOK)
  IN  [i \in 1..Len(ok) |-> PBSpan(ok[i])]

\* The sent bag with the spans of the request req added.
RECURSIVE Sent(_, _)
Sent(bag, req) ==
  IF req = <<>> THEN bag
  ELSE LET id == Head(req).SpanId
       IN  Sent(IF id \in DOMAIN bag
                  THEN [bag EXCEPT ![id] = @ + 1]
                  ELSE bag @@ (id :> 1),
                Tail(req))

\* A flush that leaves the batch as it is.
flushKeeping(q) ==
  /\ pbs' = PBSpans(q)
  /\ queue' = q
  /\ sent' = Sent(sent, PBSpans(q))
  /\ loopPC' = "rpc"

\* GRPC.flush up to the RPC: convert the batch q, empty the batch, and
\* issue client.Store, in which the worker blocks.
flush(q) ==
  /\ pbs' = PBSpans(q)
  /\ queue' = <<>>
  /\ sent' = Sent(sent, PBSpans(q))
  /\ loopPC' = "rpc"

\* GRPC.loop, case sp := <-g.ch
LoopRecv ==
  /\ loopPC = "select"
  /\ ch # <<>>
  /\ ch' = Tail(ch)
  /\ taken' = taken + 1
  /\ LET q == Append(queue, Head(ch))
     IN  IF Len(q) = QueueCap
           THEN flush(q)
           ELSE /\ queue' = q
                /\ UNCHANGED <<pbs, sent, loopPC>>
  /\ UNCHANGED <<stored, dropped, tick, calls, flushErr>>
  /\ UNCHANGED tracerVars
  /\ UNCHANGED storageVars

\* A loop that takes the tick and does not flush.
LoopTickIdle ==
  /\ loopPC = "select"
  /\ tick
  /\ tick' = FALSE
  /\ UNCHANGED <<ch, queue, stored, dropped, loopPC, pbs, calls, taken, sent,
                 flushErr>>
  /\ UNCHANGED tracerVars
  /\ UNCHANGED storageVars

\* GRPC.loop, case <-t.C
LoopTick ==
  /\ loopPC = "select"
  /\ tick
  /\ tick' = FALSE
  /\ flush(queue)
  /\ UNCHANGED <<ch, stored, dropped, calls, taken, flushErr>>
  /\ UNCHANGED tracerVars
  /\ UNCHANGED storageVars

\* A return of client.Store that counts the spans of a failed request as
\* dropped.
RPCReturnCounting(ok) ==
  /\ loopPC = "rpc"
  /\ loopPC' = "select"
  /\ flushErr' = IF ok THEN "nil" ELSE "err"
  /\ dropped' = IF ok THEN dropped ELSE dropped + Len(pbs)
  /\ UNCHANGED <<ch, queue, stored, pbs, tick, calls, taken, sent>>
  /\ UNCHANGED tracerVars
  /\ UNCHANGED storageVars

\* client.Store returns, with an error or without one; flush returns it and
\* loop logs it.
RPCReturn(ok) ==
  /\ loopPC = "rpc"
  /\ loopPC' = "select"
  /\ flushErr' = IF ok THEN "nil" ELSE "err"
  /\ UNCHANGED <<ch, queue, stored, dropped, pbs, tick, calls, taken, sent>>
  /\ UNCHANGED tracerVars
  /\ UNCHANGED storageVars

\* The time.Ticker sends a tick; t.C holds one tick and a tick that finds
\* it full is discarded.
TickerFire ==
  /\ ~tick
  /\ tick' = TRUE
  /\ UNCHANGED <<ch, queue, stored, dropped, loopPC, pbs, calls, taken, sent,
                 flushErr>>
  /\ UNCHANGED tracerVars
  /\ UNCHANGED storageVars

\* A caller of the Storer interface hands a finished span to GRPC.Store.
StoreCall(sp) ==
  /\ calls < MaxCalls
  /\ Store(sp)
  /\ UNCHANGED <<queue, loopPC, pbs, tick, taken, sent, flushErr>>
  /\ UNCHANGED tracerVars
  /\ UNCHANGED storageVars

-----------------------------------------------------------------------------
(* Tag values and log payloads *)

\* A value of dynamic type: its kind as reflect sees it and its printed form.
Value(kind, text) == [kind |-> kind, text |-> text]

Nil == Value("nil", "<nil>")

\* valueType: whether a value is permitted as a tag value or log payload.
valueType(v) == v.kind \in {"nil", "boolean", "number", "string"}

-----------------------------------------------------------------------------
(* Strings: strings.ToLower, strings.HasPrefix, encoding/hex, strconv *)

UpperLetters == "ABCDEFGHIJKLMNOPQRSTUVWXYZ"
LowerLetters == "abcdefghijklmnopqrstuvwxyz"
HexDigits == "0123456789abcdef"
DecDigits == "0123456789"

CharAt(s, i) == SubSeq(s, i, i)

\* The 1-based position of the character c in s, or 0.
IndexOf(s, c) ==
  IF \E i \in 1..Len(s) : CharAt(s, i) = c
    THEN CHOOSE i \in 1..Len(s) : CharAt(s, i) = c
    ELSE 0

\* Each upper-case letter with its lower-case letter.
LowerMap ==
  [c \in {CharAt(UpperLetters, i) : i \in 1..Len(UpperLetters)} |->
     CharAt(LowerLetters, IndexOf(UpperLetters, c))]

LowerChar(c) == IF c \in DOMAIN LowerMap THEN LowerMap[c] ELSE c

RECURSIVE ToLower(_)
ToLower(s) ==
  IF Len(s) = 0 THEN "" ELSE LowerChar(CharAt(s, 1)) \o ToLower(Tail(s))

\* Each lower-case letter with its upper-case letter.
UpperMap ==
  [c \in {CharAt(LowerLetters, i) : i \in 1..Len(LowerLetters)} |->
     CharAt(UpperLetters, IndexOf(LowerLetters, c))]

\* strings.ToUpper, which a carrier may apply to the names it presents
RECURSIVE ToUpper(_)
ToUpper(s) ==
  IF Len(s) = 0 THEN ""
  ELSE (IF CharAt(s, 1) \in DOMAIN UpperMap
          THEN UpperMap[CharAt(s, 1)] ELSE CharAt(s, 1)) \o ToUpper(Tail(s))

HasPrefix(s, prefix) ==
  Len(s) >= Len(prefix) /\ SubSeq(s, 1, Len(prefix)) = prefix

\* Each lower-case hexadecimal digit with its value.
HexMap ==
  [c \in {CharAt(HexDigits, i) : i \in 1..Len(HexDigits)} |->
     IndexOf(HexDigits, c) - 1]

\* The value of a hexadecimal digit of either case, or -1.
HexVal(c) == IF LowerChar(c) \in DOMAIN HexMap THEN HexMap[LowerChar(c)] ELSE -1

\* hex.EncodeToString
RECURSIVE EncodeToString(_)
EncodeToString(b) ==
  IF b = <<>> THEN ""
  ELSE CharAt(HexDigits, (Head(b) \div 16) + 1)
         \o CharAt(HexDigits, (Head(b) % 16) + 1)
         \o EncodeToString(Tail(b))

\* hex.DecodeString: the bytes decoded before the first character that is
\* no hexadecimal digit (the error is ignored by idFromHex).
RECURSIVE DecodeString(_)
DecodeString(s) ==
  IF Len(s) < 2 THEN <<>>
  ELSE IF HexVal(CharAt(s, 1)) < 0 \/ HexVal(CharAt(s, 2)) < 0 THEN <<>>
  ELSE <<16 * HexVal(CharAt(s, 1)) + HexVal(CharAt(s, 2))>>
         \o DecodeString(SubSeq(s, 3, Len(s)))

\* binary.BigEndian.PutUint64 into 8 bytes.  The IDs of the model are below
\* 2^32, so the four high bytes are 0.
PutUint64(id) ==
  [i \in 1..8 |-> IF i <= 4 THEN 0 ELSE (id \div (256 ^ (8 - i))) % 256]

\* binary.BigEndian.Uint64 of the first 8 bytes of b.
RECURSIVE Uint64From(_, _)
Uint64From(b, i) ==
  IF i > 8 THEN 0
  ELSE (IF b[i] = 0 THEN 0 ELSE b[i] * (256 ^ (8 - i))) + Uint64From(b, i + 1)

Uint64(b) == Uint64From(b, 1)

idToHex(id) == EncodeToString(PutUint64(id))

\* idFromHex panics (index out of range in Uint64) when fewer than 8 bytes
\* were decoded.
idFromHexPanics(s) == Len(DecodeString(s)) < 8

idFromHex(s) == Uint64(DecodeString(s))

\* strconv.FormatUint(n, 10)
RECURSIVE FormatUint(_)
FormatUint(n) ==
  IF n < 10 THEN CharAt(DecDigits, n + 1)
  ELSE FormatUint(n \div 10) \o CharAt(DecDigits, (n % 10) + 1)

RECURSIVE DecValue(_, _)
DecValue(s, acc) ==
  IF Len(s) = 0 THEN acc
  ELSE DecValue(Tail(s), 10 * acc + (IndexOf(DecDigits, CharAt(s, 1)) - 1))

\* strconv.ParseUint(s, 10, 64), its error ignored: 0 on a syntax error.
ParseUint(s) ==
  IF Len(s) = 0 \/ \E i \in 1..Len(s) : IndexOf(DecDigits, CharAt(s, i)) = 0
    THEN 0
    ELSE DecValue(s, 0)

-----------------------------------------------------------------------------
(* SpanContext and the text-map codec *)

SpanContext(traceID, parentID, spanID, flags, baggage) ==
  [TraceID |-> traceID, ParentID |-> parentID, SpanID |-> spanID,
   Flags |-> flags, Baggage |-> baggage]

\* SpanContext{}
ZeroContext == SpanContext(0, 0, 0, 0, EmptyMap)

\* The nil opentracing.SpanContext interface value.
NilContext == [isNil |-> TRUE]

IsSpanContext(c) == "TraceID" \in DOMAIN c

\* textInjecter into an empty opentracing.TextMapCarrier (Set stores the
\* value under the key as given).
textInjecter(sm) ==
  LET fixed == ("tracer-traceid" :> idToHex(sm.TraceID))
                 @@ ("tracer-spanid" :> idToHex(sm.SpanID))
                 @@ ("tracer-parentspanid" :> idToHex(sm.ParentID))
                 @@ ("tracer-flags" :> FormatUint(sm.Flags))
      bkeys == {"tracer-baggage-" \o k : k \in DOMAIN sm.Baggage}
  IN  fixed @@ [key \in bkeys |->
                  sm.Baggage[CHOOSE k \in DOMAIN sm.Baggage :
                               "tracer-baggage-" \o k = key]]

\* GRPCTextMapCarrier.Set lower-cases the key and stores a one-element list;
\* textInjecter into an empty GRPCTextMapCarrier of a context without
\* baggage.
grpcInjecter(sm) ==
  LET m == textInjecter([sm EXCEPT !.Baggage = EmptyMap])
  IN  [k \in {ToLower(key) : key \in DOMAIN m} |->
         <<m[CHOOSE key \in DOMAIN m : ToLower(key) = k]>>]

\* GRPCTextMapCarrier.ForeachKey hands out the first value of each key, or "".
grpcReader(md) ==
  [k \in DOMAIN md |-> IF Len(md[k]) > 0 THEN md[k][1] ELSE ""]

\* The keys of a carrier, each with what strings.ToLower makes of it.
LowerKeys(carrier) == [k \in DOMAIN carrier |-> ToLower(k)]

\* The carrier keys that match name after strings.ToLower.
KeysFor(lower, name) == {k \in DOMAIN lower : lower[k] = name}

BaggageKeys(lower) ==
  {k \in DOMAIN lower : HasPrefix(lower[k], "tracer-baggage-")}

\* A baggage key taken from the lower-cased carrier key.
StripBaggageLower(k) == ToLower(SubSeq(k, Len("Tracer-Baggage-") + 1, Len(k)))

StripBaggage(k) == SubSeq(k, Len("Tracer-Baggage-") + 1, Len(k))

\* What a field of the context may end up as: the value under any of the
\* keys that set it (ForeachKey visits the keys in no fixed order and the
\* last one wins), or 0 when no key sets it.
FieldValues(carrier, keys) ==
  IF keys = {} THEN {"absent"} ELSE {carrier[k] : k \in keys}

FieldID(v) == IF v = "absent" THEN 0 ELSE idFromHex(v)

\* The outcomes of textExtracter on a carrier given as key -> value.  An
\* outcome is [panic, ctx, err].
textExtracter(carrier) ==
  LET lower == LowerKeys(carrier)
      tKeys == KeysFor(lower, "tracer-traceid")
      sKeys == KeysFor(lower, "tracer-spanid")
      pKeys == KeysFor(lower, "tracer-parentspanid")
      fKeys == KeysFor(lower, "tracer-flags")
      bKeys == BaggageKeys(lower)
      names == {StripBaggage(k) : k \in bKeys}
      Baggages == {b \in [names -> {carrier[k] : k \in bKeys}] :
                     \A n \in names : \E k \in bKeys :
                        StripBaggage(k) = n /\ carrier[k] = b[n]}
  IN  IF \E k \in tKeys \cup sKeys \cup pKeys : idFromHexPanics(carrier[k])
        THEN {[panic |-> TRUE, ctx |-> ZeroContext, err |-> "panic"]}
        ELSE {IF FieldID(t) = 0
                THEN [panic |-> FALSE, ctx |-> ZeroContext,
                      err |-> "ErrSpanContextNotFound"]
                ELSE [panic |-> FALSE,
                      ctx |-> SpanContext(FieldID(t), FieldID(p), FieldID(s),
                                          IF f = "absent" THEN 0 ELSE ParseUint(f),
                                          b),
                      err |-> "nil"]
              : t \in FieldValues(carrier, tKeys),
                s \in FieldValues(carrier, sKeys),
                p \in FieldValues(carrier, pKeys),
                f \in FieldValues(carrier, fKeys), b \in Baggages}

-----------------------------------------------------------------------------
(* The binary codec *)

\* The printable ASCII characters in the order of their codes: from the
\* space (32) to the underscore (95), and from a (97) to the tilde (126).
\* The strings of the model are made of these; the backquote (96) cannot be
\* written in a string here.
AsciiTo95 ==
  " !\"#$%&'(" \o ")*+,-./0123456789:;<=>?@ABCDEFGHIJKLMNOPQRSTUVWXYZ[\\]^_"

AsciiFrom97 == "abcdefghijklmnopqrstuvwxyz{|}~"

\* Each character with its code.
OrdMap ==
  [c \in {CharAt(AsciiTo95, i) : i \in 1..Len(AsciiTo95)} |->
     31 + IndexOf(AsciiTo95, c)]
    @@ [c \in {CharAt(AsciiFrom97, i) : i \in 1..Len(AsciiFrom97)} |->
          96 + IndexOf(AsciiFrom97, c)]

\* The character with the code n.
Chr(n) ==
  IF n < 96 THEN CharAt(AsciiTo95, n - 31) ELSE CharAt(AsciiFrom97, n - 96)

\* []byte(s), as copy(b2[16:], k) writes it
RECURSIVE Bytes(_)
Bytes(s) ==
  IF Len(s) = 0 THEN <<>> ELSE <<OrdMap[CharAt(s, 1)]>> \o Bytes(Tail(s))

\* string(b)
RECURSIVE String(_)
String(b) == IF b = <<>> THEN "" ELSE Chr(Head(b)) \o String(Tail(b))

\* The orders in which a range over a map with the keys S may visit them.
RECURSIVE Orders(_)
Orders(S) ==
  IF S = {} THEN {<<>>}
  ELSE UNION {{<<k>> \o o : o \in Orders(S \ {k})} : k \in S}

\* Baggage bytes with each value written before its key.
RECURSIVE BaggageBytesValueFirst(_, _)
BaggageBytesValueFirst(baggage, order) ==
  IF order = <<>> THEN <<>>
  ELSE LET k == Head(order)
           v == baggage[k]
       IN  PutUint64(Len(k)) \o PutUint64(Len(v)) \o Bytes(v) \o Bytes(k)
             \o BaggageBytesValueFirst(baggage, Tail(order))

\* The bytes binaryInjecter appends for the baggage items visited in order.
RECURSIVE BaggageBytes(_, _)
BaggageBytes(baggage, order) ==
  IF order = <<>> THEN <<>>
  ELSE LET k == Head(order)
           v == baggage[k]
       IN  PutUint64(Len(k)) \o PutUint64(Len(v)) \o Bytes(k) \o Bytes(v)
             \o BaggageBytes(baggage, Tail(order))

\* binaryInjecter: the byte strings it may write to the carrier.
binaryInjecter(sm) ==
  { PutUint64(sm.TraceID) \o PutUint64(sm.SpanID) \o PutUint64(sm.ParentID)
      \o PutUint64(sm.Flags) \o PutUint64(Cardinality(DOMAIN sm.Baggage))
      \o BaggageBytes(sm.Baggage, o)
    : o \in Orders(DOMAIN sm.Baggage) }

\* io.ReadFull of n > 0 bytes from a reader that holds the bytes r.
ReadFull(r, n) ==
  IF Len(r) >= n THEN "nil"
  ELSE IF Len(r) = 0 THEN "EOF" ELSE "ErrUnexpectedEOF"

\* What binaryExtracter returns when ReadFull fails with e.
ReadError(e) ==
  [ctx |-> ZeroContext,
   err |-> IF e = "ErrUnexpectedEOF" THEN "ErrSpanContextNotFound" ELSE e]

\* int(binary.BigEndian.Uint64(b)) is negative: the top bit is set.
IsNegative(b) == b[1] >= 128

\* int(binary.BigEndian.Uint64(b)) is 2^48 or more, beyond what make can
\* allocate: make([]byte, kl+vl) panics (makeslice: len out of range).
IsHuge(b) == ~IsNegative(b) /\ (b[1] # 0 \/ b[2] # 0)

\* binaryExtracter's loop over n baggage items in the bytes r.
RECURSIVE readBaggage(_, _, _)
readBaggage(r, n, ctx) ==
  IF n = 0 THEN [ctx |-> ctx, err |-> "nil"]
  ELSE IF ReadFull(r, 16) # "nil" THEN ReadError(ReadFull(r, 16))
  ELSE IF \/ IsNegative(SubSeq(r, 1, 8)) \/ IsNegative(SubSeq(r, 9, 16))
          \/ SubSeq(r, 1, 8) = PutUint64(0)
    THEN [ctx |-> ZeroContext, err |-> "ErrSpanContextNotFound"]
  ELSE IF IsHuge(SubSeq(r, 1, 8)) \/ IsHuge(SubSeq(r, 9, 16))
    THEN [ctx |-> ZeroContext, err |-> "panic"]
  ELSE LET kl == Uint64(SubSeq(r, 1, 8))
           vl == Uint64(SubSeq(r, 9, 16))
           rest == SubSeq(r, 17, Len(r))
       IN  IF kl <= 0 \/ vl < 0
             THEN [ctx |-> ZeroContext, err |-> "ErrSpanContextNotFound"]
           ELSE IF ReadFull(rest, kl + vl) # "nil"
             THEN ReadError(ReadFull(rest, kl + vl))
           ELSE readBaggage(SubSeq(rest, kl + vl + 1, Len(rest)), n - 1,
                            [ctx EXCEPT !.Baggage =
                               (String(SubSeq(rest, 1, kl))
                                  :> String(SubSeq(rest, kl + 1, kl + vl)))
                                 @@ @])

\* binaryExtracter on a reader that holds the bytes b: [ctx, err].
binaryExtracter(b) ==
  IF ReadFull(b, 40) # "nil" THEN ReadError(ReadFull(b, 40))
  ELSE readBaggage(SubSeq(b, 41, Len(b)), Uint64(SubSeq(b, 33, 40)),
                   SpanContext(Uint64(SubSeq(b, 1, 8)),
                               Uint64(SubSeq(b, 17, 24)),
                               Uint64(SubSeq(b, 9, 16)),
                               Uint64(SubSeq(b, 25, 32)), EmptyMap))

-----------------------------------------------------------------------------
(* Samplers *)

\* time.Second, in the model's milliseconds
Second == 1000

ConstSampler(decision) ==
  [kind |-> "const", decision |-> decision, chance |-> 0,
   rate |-> 0, tokens |-> 0, t |-> 0]

\* The chance is held in percent.
ProbabilisticSampler(chance) ==
  [kind |-> "probabilistic", decision |-> FALSE, chance |-> chance,
   rate |-> 0, tokens |-> 0, t |-> 0]

\* NewRateSampler(n) at the instant tnow: newRateLimiter
RateSampler(n, tnow) ==
  [kind |-> "rate", decision |-> FALSE, chance |-> 0,
   rate |-> n, tokens |-> n, t |-> tnow + Second]

\* Go's integer division and float-to-int conversion truncate toward zero.
TruncDiv(a, b) == IF a >= 0 THEN a \div b ELSE -((-a) \div b)

\* An Allow that does not hold the tokens down to the rate.
AllowUncapped(r, tnow) ==
  LET add == TruncDiv((tnow - r.t) * r.rate, Second)
      filled == IF add > 0
                  THEN [r EXCEPT !.tokens = r.tokens + add, !.t = tnow]
                  ELSE r
  IN  IF filled.tokens > 0
        THEN [r |-> [filled EXCEPT !.tokens = @ - 1], ok |-> TRUE]
        ELSE [r |-> filled, ok |-> FALSE]

\* An Allow that adds what the elapsed time gives even when that is not
\* above zero.
AllowSigned(r, tnow) ==
  LET add == TruncDiv((tnow - r.t) * r.rate, Second)
      filled == [r EXCEPT !.tokens = IF r.tokens + add > r.rate
                                       THEN r.rate ELSE r.tokens + add,
                          !.t = tnow]
  IN  IF filled.tokens > 0
        THEN [r |-> [filled EXCEPT !.tokens = @ - 1], ok |-> TRUE]
        ELSE [r |-> filled, ok |-> FALSE]

\* rateLimiter.Allow at the instant tnow: the limiter afterwards and the
\* result.
Allow(r, tnow) ==
  LET add == TruncDiv((tnow - r.t) * r.rate, Second)
      filled == IF add > 0
                  THEN [r EXCEPT !.tokens = IF r.tokens + add > r.rate
                                              THEN r.rate ELSE r.tokens + add,
                                 !.t = tnow]
                  ELSE r
  IN  IF filled.tokens > 0
        THEN [r |-> [filled EXCEPT !.tokens = @ - 1], ok |-> TRUE]
        ELSE [r |-> filled, ok |-> FALSE]

\* Sampler.Sample of the tracer's sampler; draw is what rng.Float64()
\* returns, in percent.
Sample(draw) ==
  /\ sampleCalls' = sampleCalls + 1
  /\ CASE sampler.kind = "const" ->
            /\ lastSample' = sampler.decision
            /\ sampler' = sampler
       [] sampler.kind = "probabilistic" ->
            /\ lastSample' = (draw < sampler.chance)
            /\ sampler' = sampler
       [] sampler.kind = "rate" ->
            /\ lastSample' = Allow(sampler, now).ok
            /\ sampler' = Allow(sampler, now).r

-----------------------------------------------------------------------------
(* Span *)

\* FlagSampled = 1 << iota
FlagSampled == 1

\* Span.sampled: (sp.Flags & FlagSampled) > 0
sampled(sp) == (sp.Flags \div FlagSampled) % 2 = 1

\* Span.Context
Context(sp) ==
  SpanContext(sp.TraceID, sp.ParentID, sp.SpanID, sp.Flags, sp.Baggage)

\* Span.SetOperationName
SetOperationName(sp, name) == [sp EXCEPT !.OperationName = name]

\* Span.SetTag
SetTag(sp, key, value) ==
  IF ~sampled(sp) THEN sp
  ELSE IF ~valueType(value) THEN sp
  ELSE [sp EXCEPT !.Tags = (key :> value) @@ sp.Tags]

LogData(event, payload, timestamp) ==
  [Event |-> event, Payload |-> payload, Timestamp |-> timestamp]

\* Span.log
log(sp, data, tnow) ==
  IF ~sampled(sp) THEN sp
  ELSE IF ~valueType(data.Payload) THEN sp
  ELSE [sp EXCEPT !.Logs =
          Append(@, [data EXCEPT !.Timestamp = IF IsZero(@) THEN tnow ELSE @])]

\* Span.Log
Log(sp, data, tnow) == log(sp, data, tnow)

\* Span.LogEvent
LogEvent(sp, event, tnow) ==
  IF ~sampled(sp) THEN sp ELSE Log(sp, LogData(event, Nil, 0), tnow)

\* Span.LogEventWithPayload
LogEventWithPayload(sp, event, payload, tnow) ==
  IF ~sampled(sp) THEN sp ELSE Log(sp, LogData(event, payload, 0), tnow)

FinishOptions(finishTime, bulk) ==
  [FinishTime |-> finishTime, BulkLogData |-> bulk]

RECURSIVE logAll(_, _, _)
logAll(sp, bulk, tnow) ==
  IF bulk = <<>> THEN sp
  ELSE logAll(log(sp, Head(bulk), tnow), Tail(bulk), tnow)

\* Span.FinishWithOptions on a sampled span, up to the call of Store: the
\* span with its finish time and its bulk log data.
finishSpan(sp, opts, tnow) ==
  logAll([sp EXCEPT !.FinishTime = IF IsZero(opts.FinishTime)
                                     THEN tnow ELSE opts.FinishTime],
         opts.BulkLogData, tnow)

\* A FinishWithOptions that does not look at the sampled flag.
FinishWithOptionsAlways(sp, opts, tnow) ==
  [sp |-> finishSpan(sp, opts, tnow), store |-> TRUE]

\* Span.FinishWithOptions: the span afterwards and whether sp.RawSpan went
\* to tracer.storer.Store.
FinishWithOptions(sp, opts, tnow) ==
  IF ~sampled(sp)
    THEN [sp |-> sp, store |-> FALSE]
    ELSE [sp |-> finishSpan(sp, opts, tnow), store |-> TRUE]

\* Span.Finish
Finish(sp, tnow) ==
  IF ~sampled(sp)
    THEN [sp |-> sp, store |-> FALSE]
    ELSE FinishWithOptions(sp, FinishOptions(0, <<>>), tnow)

-----------------------------------------------------------------------------
(* Tracer *)

\* Tracer.ServiceName
ServiceName == "svc"

StartSpanOptions(startTime, references, tags) ==
  [StartTime |-> startTime, References |-> references, Tags |-> tags]

\* A StartSpan that takes the TraceID and the ParentID from the parent and
\* not the Flags.
StartSpanOwnFlags(operationName, sopts, id, decision, tnow) ==
  LET start == IF IsZero(sopts.StartTime) THEN tnow ELSE sopts.StartTime
      own == RawSpan(id, id, 0, 0, ServiceName, operationName, start, 0,
                     sopts.Tags, <<>>)
      parent == sopts.References[1]
  IN  IF Len(sopts.References) > 0
        THEN [own EXCEPT !.ParentID = parent.SpanID,
                         !.TraceID = parent.TraceID]
        ELSE IF decision THEN [own EXCEPT !.Flags = FlagSampled] ELSE own

\* Tracer.StartSpan: the span it returns, given the generated id and, for
\* a root span, the sampler's decision.
StartSpan(operationName, sopts, id, decision, tnow) ==
  LET start == IF IsZero(sopts.StartTime) THEN tnow ELSE sopts.StartTime
      own == RawSpan(id, id, 0, 0, ServiceName, operationName, start, 0,
                     sopts.Tags, <<>>)
      parent == sopts.References[1]
  IN  IF Len(sopts.References) > 0
        THEN [own EXCEPT !.ParentID = parent.SpanID,
                         !.TraceID = parent.TraceID,
                         !.Flags = parent.Flags]
        ELSE IF decision THEN [own EXCEPT !.Flags = FlagSampled] ELSE own

\* What the op variable holds after a call.
Call(name, span, via, ref, tags) ==
  [name |-> name, span |-> span, via |-> via, ref |-> ref, tags |-> tags]

NoCall == Call("none", 0, "none", ZeroContext, EmptyMap)

\* A StartSpan call that asks the sampler for every span.
StartSpanCallSampling(operationName, sopts, id, draw, via, ref) ==
  /\ Len(sopts.References) > 0 => IsSpanContext(sopts.References[1])
  /\ Sample(draw)
  /\ spans' = Append(spans,
                     StartSpan(operationName, sopts, id, lastSample', now))
  /\ op' = Call("StartSpan", Len(spans) + 1, via, ref, sopts.Tags)
  /\ UNCHANGED <<finished, now>>
  /\ UNCHANGED shipperVars
  /\ UNCHANGED storageVars

\* A call of Tracer.StartSpan.  via and ref tell where the reference, if
\* any, came from; the first reference must be a SpanContext, or StartSpan
\* panics.
StartSpanCall(operationName, sopts, id, draw, via, ref) ==
  /\ Len(sopts.References) > 0 => IsSpanContext(sopts.References[1])
  /\ IF Len(sopts.References) > 0
       THEN UNCHANGED samplerVars
       ELSE Sample(draw)
  /\ spans' = Append(spans,
                     StartSpan(operationName, sopts, id, lastSample', now))
  /\ op' = Call("StartSpan", Len(spans) + 1, via, ref, sopts.Tags)
  /\ UNCHANGED <<finished, now>>
  /\ UNCHANGED shipperVars
  /\ UNCHANGED storageVars

\* A call of a mutator on the span s that leads to sp.
MutatorCall(name, s, sp) ==
  /\ spans' = [spans EXCEPT ![s] = sp]
  /\ op' = Call(name, s, "none", ZeroContext, EmptyMap)
  /\ UNCHANGED <<finished, now>>
  /\ UNCHANGED samplerVars
  /\ UNCHANGED shipperVars
  /\ UNCHANGED storageVars

SetOperationNameCall(s, name) ==
  MutatorCall("SetOperationName", s, SetOperationName(spans[s], name))

SetTagCall(s, key, value) ==
  MutatorCall("SetTag", s, SetTag(spans[s], key, value))

LogCall(s, data) ==
  MutatorCall("Log", s, Log(spans[s], data, now))

LogEventCall(s, event) ==
  MutatorCall("LogEvent", s, LogEvent(spans[s], event, now))

LogEventWithPayloadCall(s, event, payload) ==
  MutatorCall("LogEventWithPayload", s,
              LogEventWithPayload(spans[s], event, payload, now))

\* A call of Finish or FinishWithOptions on the span s with the outcome r;
\* the tracer's storer is the shipper.
FinishedCall(name, s, r) ==
  /\ spans' = [spans EXCEPT ![s] = r.sp]
  /\ finished' = finished \cup {s}
  /\ op' = Call(name, s, "none", ZeroContext, EmptyMap)
  /\ IF r.store
       THEN /\ Store(r.sp)
            /\ UNCHANGED <<queue, loopPC, pbs, tick, taken, sent, flushErr>>
       ELSE UNCHANGED shipperVars
  /\ UNCHANGED now
  /\ UNCHANGED samplerVars
  /\ UNCHANGED storageVars

FinishCall(s) == FinishedCall("Finish", s, Finish(spans[s], now))

FinishWithOptionsCall(s, opts) ==
  FinishedCall("FinishWithOptions", s, FinishWithOptions(spans[s], opts, now))

\* ext.RPCServerOption(sctx): a ChildOf reference to sctx unless it is the
\* nil interface, and the tag span.kind = server.
RPCServerOption(sctx) ==
  StartSpanOptions(0, IF sctx = NilContext THEN <<>> ELSE <<sctx>>,
                   "span.kind" :> Value("string", "server"))

\* The interceptor of NewUnaryInterceptor serving one request with the
\* metadata md: it extracts the context, dropping the error, starts the
\* server span, tags it, runs the handler and finishes the span.
UnaryInterceptor(md, id, draw, handlerFails) ==
  \E r \in textExtracter(grpcReader(md)) :
    /\ ~r.panic
    /\ LET sopts == RPCServerOption(r.ctx)
           sp0 == StartSpan("method", sopts, id, lastSample', now)
           sp1 == SetTag(sp0, "component", Value("string", "grpc"))
           sp2 == IF handlerFails
                    THEN SetTag(sp1, "error", Value("boolean", "true"))
                    ELSE sp1
           fin == Finish(sp2, now)
       IN  /\ IF Len(sopts.References) > 0
                THEN UNCHANGED samplerVars
                ELSE Sample(draw)
           /\ spans' = Append(spans, fin.sp)
           /\ finished' = finished \cup {Len(spans) + 1}
           /\ op' = Call("UnaryInterceptor", Len(spans) + 1, "grpc", r.ctx,
                         sopts.Tags)
           /\ IF fin.store
                THEN /\ Store(fin.sp)
                     /\ UNCHANGED <<queue, loopPC, pbs, tick, taken, sent,
                                    flushErr>>
                ELSE UNCHANGED shipperVars
           /\ UNCHANGED now
           /\ UNCHANGED storageVars

\* FinishWithOptions hands sp.RawSpan to Store by value: the copy has its
\* own names, times and slice header, and the same tag map as the Span when
\* that map is not nil (the empty map of the model).  The copies in q of
\* the span with this ID, with the tags of the shared map written through.
WriteThrough(q, id, tags) ==
  [i \in 1..Len(q) |->
     IF q[i].SpanID = id /\ q[i].Tags # EmptyMap
       THEN [q[i] EXCEPT !.Tags = tags] ELSE q[i]]

\* Span.SetTag on the span s up to the write: the lock of the span is
\* taken, which the worker of the shipper never takes, and the checks pass.
SetTagEnter(s, key, value) ==
  /\ op.name # "SetTag.write"
  /\ sampled(spans[s])
  /\ valueType(value)
  /\ op' = Call("SetTag.write", s, "none", ZeroContext, key :> value)
  /\ UNCHANGED <<spans, finished, now>>
  /\ UNCHANGED samplerVars
  /\ UNCHANGED shipperVars
  /\ UNCHANGED storageVars

\* Span.SetTag: sp.Tags[key] = value, which every RawSpan with the same
\* map sees, and the return.
SetTagWrite ==
  /\ op.name = "SetTag.write"
  /\ LET s == op.span
         key == CHOOSE k \in DOMAIN op.tags : TRUE
         sp == SetTag(spans[s], key, op.tags[key])
     IN  /\ spans' = [spans EXCEPT ![s] = sp]
         /\ ch' = WriteThrough(ch, sp.SpanID, sp.Tags)
         /\ queue' = WriteThrough(queue, sp.SpanID, sp.Tags)
         /\ op' = Call("SetTag", s, "none", ZeroContext, op.tags)
  /\ UNCHANGED <<finished, now>>
  /\ UNCHANGED samplerVars
  /\ UNCHANGED <<stored, dropped, loopPC, pbs, tick, calls, taken, sent,
                 flushErr>>
  /\ UNCHANGED storageVars

\* A loop that returns whatever was drawn.
RedrawNever(x) == FALSE

\* The loop of RandomID.GenerateID goes round again on a draw of 0.
Redraw(x) == x = 0

\* rand.Read(b), whose error GenerateID ignores: the n first bytes of b are
\* those of the draw, all 8 when it succeeds.
Read(b, draw, n) == [i \in 1..8 |-> IF i <= n THEN draw[i] ELSE b[i]]

\* What op holds while GenerateID runs and after it: the buffer b, whether
\* the loop has gone round again in this call, and the IDs returned so far.
Generating(name, b, again, ids) ==
  [name |-> name, b |-> b, again |-> again, ids |-> ids]

\* RandomID.GenerateID is called: b := make([]byte, 8)
GenerateIDCall ==
  /\ op.name # "GenerateID.loop"
  /\ op' = Generating("GenerateID.loop", [i \in 1..8 |-> 0], FALSE,
                      IF op.name = "GenerateID" THEN op.ids ELSE <<>>)
  /\ UNCHANGED <<spans, finished, sampler, sampleCalls, lastSample, now>>
  /\ UNCHANGED shipperVars
  /\ UNCHANGED storageVars

\* One round of the loop of GenerateID: rand.Read(b) and
\* binary.BigEndian.Uint64(b)
GenerateIDRound(draw, n) ==
  /\ op.name = "GenerateID.loop"
  /\ LET b == Read(op.b, draw, n)
         x == Uint64(b)
     IN  op' = IF Redraw(x)
                 THEN Generating("GenerateID.loop", b, TRUE, op.ids)
                 ELSE Generating("GenerateID", b, op.again, Append(op.ids, x))
  /\ UNCHANGED <<spans, finished, sampler, sampleCalls, lastSample, now>>
  /\ UNCHANGED shipperVars
  /\ UNCHANGED storageVars

\* The clock moves on by d milliseconds.
ClockAdvance(d) ==
  /\ now' = now + d
  /\ UNCHANGED <<spans, finished, sampler, sampleCalls, lastSample, op>>
  /\ UNCHANGED shipperVars
  /\ UNCHANGED storageVars

-----------------------------------------------------------------------------
(* The relational storage: package postgres *)

\* A tstzrange as timeRange.Value writes it: both bounds inclusive.
timeRange(start, end) == [Start |-> start, End |-> end]

\* PostgreSQL refuses a range whose lower bound is above its upper bound.
RangeOK(t) == t.Start <= t.End

\* A row of the table spans.
SpanRow(id, traceID, time, serviceName, operationName) ==
  [id |-> id, trace_id |-> traceID, time |-> time,
   service_name |-> serviceName, operation_name |-> operationName]

\* The time column of a tags row: NULL for a tag, a timestamp for a log.
NullTime == <<>>

\* A row of the table tags, without its generated id.
TagRow(spanID, traceID, key, value, time) ==
  [span_id |-> spanID, trace_id |-> traceID, key |-> key, value |-> value,
   time |-> time]

\* A row of the table relations, without its generated id.
RelationRow(span1, span2) ==
  [span1_id |-> span1, span2_id |-> span2, kind |-> "parent"]

\* The tables after schema.sql: spans as a set of rows; tags and relations
\* as bags of rows, since their generated ids tell equal rows apart.
EmptyDB == [spans |-> {}, tags |-> EmptyMap, relations |-> EmptyMap]

\* The primary keys present in the table spans.
SpanIDs(d) == {r.id : r \in d.spans}

\* The rows of the table spans with the id.
RowsByID(d, id) == {r \in d.spans : r.id = id}

\* One more copy of a row in a bag of rows.
AddRow(bag, row) ==
  IF row \in DOMAIN bag THEN [bag EXCEPT ![row] = @ + 1] ELSE bag @@ (row :> 1)

\* Store's text for a tag value or log payload: "" for nil, else %v.
Stringify(v) == IF v = Nil THEN "" ELSE Sprint(v)

\* The result of tx.Exec: the tables afterwards and the error.
ExecResult(d, err) == [db |-> d, err |-> err]

\* An upsert without ON CONFLICT on a table without primary key.
upsertSpanInsertOnly(d, id, traceID, time, serviceName, operationName) ==
  IF ~RangeOK(time) THEN ExecResult(d, "range")
  ELSE ExecResult([d EXCEPT !.spans = @ \cup
                     {SpanRow(id, traceID, time, serviceName, operationName)}],
                  "nil")

\* The statement upsertSpan: INSERT ... ON CONFLICT (id) DO UPDATE SET time,
\* service_name, operation_name.
upsertSpan(d, id, traceID, time, serviceName, operationName) ==
  IF ~RangeOK(time) THEN ExecResult(d, "range")
  ELSE IF id \in SpanIDs(d)
    THEN ExecResult([d EXCEPT !.spans =
                       {IF r.id = id
                          THEN [r EXCEPT !.time = time,
                                         !.service_name = serviceName,
                                         !.operation_name = operationName]
                          ELSE r : r \in @}],
                    "nil")
  ELSE ExecResult([d EXCEPT !.spans = @ \cup
                     {SpanRow(id, traceID, time, serviceName, operationName)}],
                  "nil")

\* A placeholder insert that replaces the row on conflict.
insertParentSpanOverwrite(d, id, traceID, time) ==
  upsertSpan(d, id, traceID, time, "", "")

\* The statement insertParentSpan: INSERT ... VALUES ($1, $2, $3, '', '')
\* ON CONFLICT (id) DO NOTHING.
insertParentSpan(d, id, traceID, time) ==
  IF ~RangeOK(time) THEN ExecResult(d, "range")
  ELSE IF id \in SpanIDs(d) THEN ExecResult(d, "nil")
  ELSE ExecResult([d EXCEPT !.spans = @ \cup
                     {SpanRow(id, traceID, time, "", "")}],
                  "nil")

\* The statement insertParentRelation; both columns reference spans.
insertParentRelation(d, span1, span2) ==
  IF span1 \notin SpanIDs(d) \/ span2 \notin SpanIDs(d)
    THEN ExecResult(d, "foreign key")
    ELSE ExecResult([d EXCEPT !.relations = AddRow(@, RelationRow(span1, span2))],
                    "nil")

\* The statements insertTag (time NULL) and insertLog; span_id and trace_id
\* reference spans.
insertTag(d, spanID, traceID, key, value, time) ==
  IF spanID \notin SpanIDs(d) \/ traceID \notin SpanIDs(d)
    THEN ExecResult(d, "foreign key")
    ELSE ExecResult([d EXCEPT !.tags =
                       AddRow(@, TagRow(spanID, traceID, key, value, time))],
                    "nil")

\* The statements Storage.Store executes for sp, the tags visited in order.
Statements(sp, order) ==
  <<[kind |-> "upsertSpan"]>>
  \o (IF sp.ParentID # 0
        THEN <<[kind |-> "insertParentSpan"], [kind |-> "insertTraceSpan"],
               [kind |-> "insertParentRelation"]>>
        ELSE <<>>)
  \o [i \in 1..Len(order) |-> [kind |-> "insertTag", key |-> order[i]]]
  \o [i \in 1..Len(sp.Logs) |-> [kind |-> "insertLog", log |-> sp.Logs[i]]]

\* tx.Exec of one statement of Storage.Store with its arguments.
Exec(d, sp, st) ==
  CASE st.kind = "upsertSpan" ->
         upsertSpan(d, sp.SpanID, sp.TraceID,
                    timeRange(sp.StartTime, sp.FinishTime),
                    sp.ServiceName, sp.OperationName)
    [] st.kind = "insertParentSpan" ->
         insertParentSpan(d, sp.ParentID, sp.TraceID, timeRange(0, 0))
    [] st.kind = "insertTraceSpan" ->
         insertParentSpan(d, sp.TraceID, sp.TraceID,
                          timeRange(sp.StartTime, sp.FinishTime))
    [] st.kind = "insertParentRelation" ->
         insertParentRelation(d, sp.ParentID, sp.SpanID)
    [] st.kind = "insertTag" ->
         insertTag(d, sp.SpanID, sp.TraceID, st.key,
                   Stringify(sp.Tags[st.key]), NullTime)
    [] st.kind = "insertLog" ->
         insertTag(d, sp.SpanID, sp.TraceID, st.log.Event,
                   Stringify(st.log.Payload), <<st.log.Timestamp>>)

\* The statements from the i-th on, executed in the transaction until one
\* fails; the failAt-th fails for a reason outside the tables (a lost
\* connection, a timeout).
RECURSIVE Run(_, _, _, _, _)
Run(d, sp, stmts, i, failAt) ==
  IF i > Len(stmts) THEN ExecResult(d, "nil")
  ELSE IF i = failAt THEN ExecResult(d, "exec")
  ELSE LET r == Exec(d, sp, stmts[i])
       IN  IF r.err # "nil" THEN r ELSE Run(r.db, sp, stmts, i + 1, failAt)

\* A rollback that keeps what the transaction has written.
RollbackPartial(before, working) == working

\* tx.Rollback, and a failed tx.Commit: the tables as they were at Begin.
Rollback(before, working) == before

\* Storage.Store: the tables afterwards and the error returned.  failAt = 0
\* lets every statement through; failAt = Len(stmts) + 1 fails the commit.
StorageStore(d, sp, order, failAt) ==
  LET stmts == Statements(sp, order)
      r == Run(d, sp, stmts, 1, failAt)
  IN  IF r.err # "nil" THEN ExecResult(Rollback(d, r.db), r.err)
      ELSE IF failAt = Len(stmts) + 1
        THEN ExecResult(Rollback(d, r.db), "commit")
      ELSE r

\* sql.NullString
NullString(str, valid) == [String |-> str, Valid |-> valid]

\* The copies of the rows of a bag, in the orders a query may return them.
RECURSIVE RowOrders(_)
RowOrders(bag) ==
  IF DOMAIN bag = {} THEN {<<>>}
  ELSE UNION {{<<r>> \o o :
                 o \in RowOrders([q \in {q \in DOMAIN bag : q # r \/ bag[r] > 1}
                                   |-> IF q = r THEN bag[q] - 1 ELSE bag[q]])} :
              r \in DOMAIN bag}

\* ORDER BY spans.time ASC, spans.id: ranges compare by their lower bound,
\* then by their upper bound.
Before(a, b) ==
  \/ a.time.Start < b.time.Start
  \/ a.time.Start = b.time.Start /\ a.time.End < b.time.End
  \/ a.time = b.time /\ a.id < b.id

\* The rows of spans LEFT JOIN tags ON spans.id = tags.span_id for one span
\* row, in the orders the query may return them.
JoinRows(d, r) ==
  LET keys == {t \in DOMAIN d.tags : t.span_id = r.id}
      joined(key, value, time) ==
        [id |-> r.id, trace_id |-> r.trace_id, time |-> r.time,
         service_name |-> r.service_name, operation_name |-> r.operation_name,
         key |-> key, value |-> value, tag_time |-> time]
  IN  IF keys = {}
        THEN {<<joined(NullString("", FALSE), NullString("", FALSE), NullTime)>>}
        ELSE {[i \in 1..Len(o) |->
                 joined(NullString(o[i].key, TRUE),
                        NullString(o[i].value, TRUE), o[i].time)] :
              o \in RowOrders([t \in keys |-> d.tags[t]])}

\* The results the query selectTrace may have for the span rows in order.
RECURSIVE JoinAll(_, _, _)
JoinAll(d, ordered, i) ==
  IF i > Len(ordered) THEN {<<>>}
  ELSE {head \o rest : head \in JoinRows(d, ordered[i]),
                       rest \in JoinAll(d, ordered, i + 1)}

\* The query selectTrace
selectTrace(d, id) ==
  LET rows == {r \in d.spans : r.trace_id = id}
      ordered == CHOOSE o \in Orders(rows) :
                   \A i, j \in 1..Len(o) : i < j => Before(o[i], o[j])
  IN  JoinAll(d, ordered, 1)

\* The query selectRelations: relations JOIN spans ON spans.id = r.span1_id
\* WHERE spans.trace_id = $1.
selectRelations(d, id) ==
  LET keys == {r \in DOMAIN d.relations :
                 \E sp \in d.spans : sp.id = r.span1_id /\ sp.trace_id = id}
      copies(r) == Cardinality({sp \in d.spans :
                                  sp.id = r.span1_id /\ sp.trace_id = id})
  IN  RowOrders([r \in keys |-> d.relations[r] * copies(r)])

\* The zero tracer.RawSpan
ZeroSpan == RawSpan(0, 0, 0, 0, "", "", 0, 0, EmptyMap, <<>>)

\* The loop of scanSpans from the i-th row on.
RECURSIVE scanRows(_, _, _, _, _)
scanRows(rows, i, out, span, prevSpanID) ==
  IF i > Len(rows)
    THEN IF span.SpanID # 0 THEN Append(out, span) ELSE out
  ELSE LET row == rows[i]
           fresh == row.id # prevSpanID
           out1 == IF fresh /\ prevSpanID # 0 THEN Append(out, span) ELSE out
           sp0 == IF fresh THEN ZeroSpan ELSE span
           sp1 == [sp0 EXCEPT !.SpanID = row.id, !.TraceID = row.trace_id,
                              !.StartTime = row.time.Start,
                              !.FinishTime = row.time.End,
                              !.ServiceName = row.service_name,
                              !.OperationName = row.operation_name]
           sp2 == IF row.key.String = "" THEN sp1
                  ELSE IF row.tag_time = NullTime
                    THEN [sp1 EXCEPT !.Tags =
                            (row.key.String :> Value("string", row.value.String))
                            @@ @]
                  ELSE [sp1 EXCEPT !.Logs =
                          Append(@, LogData(row.key.String,
                                            Value("string", row.value.String),
                                            row.tag_time[1]))]
       IN  scanRows(rows, i + 1, out1, sp2, row.id)

\* scanSpans
scanSpans(rows) == scanRows(rows, 1, <<>>, ZeroSpan, 0)

\* A tracer.RawRelation
RawRelation(parent, child, kind) ==
  [ParentID |-> parent, ChildID |-> child, Kind |-> kind]

\* A tracer.RawTrace
RawTrace(id, rawSpans, relations) ==
  [TraceID |-> id, Spans |-> rawSpans, Relations |-> relations]

\* Storage.traceByID: the traces the two queries may produce.
traceByID(d, id) ==
  {RawTrace(id, scanSpans(rows),
            [i \in 1..Len(rels) |->
               RawRelation(rels[i].span1_id, rels[i].span2_id, rels[i].kind)]) :
   rows \in selectTrace(d, id), rels \in selectRelations(d, id)}

\* What the op variable holds after a call of the storage.
StorageCall(name, span, err, trace) ==
  [name |-> name, span |-> span, err |-> err, trace |-> trace]

\* A call of Storage.Store
StorageStoreCall(sp, order, failAt) ==
  LET r == StorageStore(db, sp, order, failAt)
  IN  /\ db' = r.db
      /\ history' = IF r.err = "nil" THEN Append(history, sp) ELSE history
      /\ op' = StorageCall("Storage.Store", sp, r.err, RawTrace(0, <<>>, <<>>))
      /\ UNCHANGED <<spans, finished, sampler, sampleCalls, lastSample, now>>
      /\ UNCHANGED shipperVars

\* A call of Storage.TraceByID
TraceByIDCall(id) ==
  \E trace \in traceByID(db, id) :
    /\ op' = StorageCall("Storage.TraceByID", ZeroSpan, "nil", trace)
    /\ UNCHANGED <<spans, finished, sampler, sampleCalls, lastSample, now>>
    /\ UNCHANGED shipperVars
    /\ UNCHANGED storageVars

\* What the op variable holds after a call of a query or of Purge.
QueryCall(name, arg, err, out) ==
  [name |-> name, arg |-> arg, err |-> err, out |-> out]

\* The query selectSpan: the join for the span row, LIMIT 1 without ORDER BY;
\* any one row of the join may be the one returned.
selectSpan(d, id) ==
  IF RowsByID(d, id) = {} THEN {<<>>}
  ELSE UNION {{<<rows[i]>> : i \in 1..Len(rows)} :
              rows \in UNION {JoinRows(d, r) : r \in RowsByID(d, id)}}

\* Storage.spanByID: the results the query may produce.
spanByID(d, id) ==
  {LET scanned == scanSpans(rows)
   IN  IF Len(scanned) = 0
         THEN [span |-> ZeroSpan, err |-> "sql.ErrNoRows"]
         ELSE [span |-> scanned[1], err |-> "nil"] :
   rows \in selectSpan(d, id)}

\* A call of Storage.SpanByID
SpanByIDCall(id) ==
  \E r \in spanByID(db, id) :
    /\ op' = QueryCall("Storage.SpanByID", id, r.err, r.span)
    /\ UNCHANGED <<spans, finished, sampler, sampleCalls, lastSample, now>>
    /\ UNCHANGED shipperVars
    /\ UNCHANGED storageVars

\* 1<<31 - 1: the stand-in for no MaxDuration and no Num, and the largest
\* value of the integer that the SQL function duration returns.
MaxInt32 == 2147483647

\* time.Millisecond: the nanoseconds in one unit of the model's time.
Millisecond == 1000000

\* A server.QueryTag
QueryTag(key, value, checkValue) ==
  [Key |-> key, Value |-> value, CheckValue |-> checkValue]

\* A server.Query.  The durations are held in the model's time units, as
\* the times are.
Query(startTime, finishTime, operationName, minDuration, maxDuration, andTags, orTags, num) ==
  [StartTime |-> startTime, FinishTime |-> finishTime,
   OperationName |-> operationName, MinDuration |-> minDuration,
   MaxDuration |-> maxDuration, AndTags |-> andTags, OrTags |-> orTags,
   Num |-> num]

\* The SQL function duration(d): (EXTRACT(epoch from upper - lower) *
\* 1e9)::int, which fails when the nanoseconds do not fit the integer.
duration(t) ==
  LET d == t.End - t.Start
  IN  IF d > MaxInt32 \div Millisecond
        THEN [ok |-> FALSE, d |-> 0]
        ELSE [ok |-> TRUE, d |-> d]

\* DURATION(time) <= $n for the bound QueryTraces passes: the given
\* MaxDuration, or 1<<31 - 1 nanoseconds in place of 0.
WithinMax(d, maxDuration) ==
  IF maxDuration = 0 THEN d <= MaxInt32 \div Millisecond ELSE d <= maxDuration

\* range @> range, for ranges with inclusive bounds
Contains(outer, inner) ==
  outer.Start <= inner.Start /\ inner.End <= outer.End

\* The conditions of QueryTraces on a row of spans other than the duration.
RootInRange(r, q, finishTime) ==
  /\ Contains(timeRange(q.StartTime, finishTime), r.time)
  /\ (q.OperationName = "" \/ r.operation_name = q.OperationName)
  /\ r.id = r.trace_id

\* One condition on a row of tags: (tags.key = ? AND tags.value = ?) or
\* (tags.key = ?).
TagCond(t, tag) ==
  IF tag.CheckValue THEN t.key = tag.Key /\ t.value = tag.Value
  ELSE t.key = tag.Key

\* The EXISTS clause as the SQL reads: the conditions joined by AND and OR
\* without parentheses around the OR part, AND binding tighter than OR.
ExistsTags(d, r, q) ==
  \E t \in DOMAIN d.tags :
    \/ /\ t.trace_id = r.trace_id
       /\ \A i \in 1..Len(q.AndTags) : TagCond(t, q.AndTags[i])
       /\ Len(q.OrTags) > 0 => TagCond(t, q.OrTags[1])
    \/ \E i \in 2..Len(q.OrTags) : TagCond(t, q.OrTags[i])

\* The parentheses of the query text QueryTraces builds: the plain query,
\* or the query with the EXISTS clause, whose text ends in one more ")"
\* after the outer ORDER BY.
RECURSIVE CondParens(_)
CondParens(n) == IF n = 0 THEN "" ELSE "()" \o CondParens(n - 1)

QueryParens(q) ==
  IF Len(q.AndTags) + Len(q.OrTags) = 0
    THEN "(" \o "()" \o "()" \o "()" \o ")"
    ELSE "(" \o "(" \o CondParens(Len(q.AndTags) + Len(q.OrTags)) \o ")"
         \o "()" \o "()" \o "()" \o ")" \o ")"

\* Whether PostgreSQL parses a text with these parentheses.
RECURSIVE Balanced(_, _, _)
Balanced(text, i, depth) ==
  IF depth < 0 THEN FALSE
  ELSE IF i > Len(text) THEN depth = 0
  ELSE Balanced(text, i + 1, IF CharAt(text, i) = "(" THEN depth + 1 ELSE depth - 1)

\* ORDER BY spans.time DESC, spans.trace_id
Latest(a, b) ==
  \/ b.time.Start < a.time.Start
  \/ a.time.Start = b.time.Start /\ b.time.End < a.time.End
  \/ a.time = b.time /\ a.trace_id < b.trace_id

\* The ids the query of QueryTraces returns for the rows that pass its
\* WHERE clause: the first num by time descending, then by time ascending.
LimitedIDs(rows, num) ==
  LET desc == CHOOSE o \in Orders(rows) :
                \A i, j \in 1..Len(o) : i < j => Latest(o[i], o[j])
      kept == {desc[i] : i \in 1..(IF num < Len(desc) THEN num ELSE Len(desc))}
      asc == CHOOSE o \in Orders(kept) :
               \A i, j \in 1..Len(o) : i < j => Before(o[i], o[j])
  IN  [i \in 1..Len(asc) |-> asc[i].trace_id]

\* The loop of QueryTraces over the ids: the lists of traces traceByID may
\* produce.
RECURSIVE TracesOf(_, _, _)
TracesOf(d, ids, i) ==
  IF i > Len(ids) THEN {<<>>}
  ELSE {<<trace>> \o rest : trace \in traceByID(d, ids[i]),
                            rest \in TracesOf(d, ids, i + 1)}

\* The query of Storage.QueryTraces at the instant tnow: the ids it
\* returns, or its error.  The order in which PostgreSQL evaluates the
\* conditions of a WHERE clause is not fixed: with eager, duration is
\* computed for every row of spans, and otherwise only for the rows that
\* pass the other conditions.
QueryIDs(d, q, tnow, eager) ==
  LET finishTime == IF IsZero(q.FinishTime) THEN tnow ELSE q.FinishTime
      num == IF q.Num = 0 THEN MaxInt32 ELSE q.Num
      failure(err) == [ids |-> <<>>, err |-> err]
      candidates == {r \in d.spans : RootInRange(r, q, finishTime)}
      computed == IF eager THEN d.spans ELSE candidates
      rows == {r \in candidates :
                 /\ Len(q.AndTags) + Len(q.OrTags) > 0 => ExistsTags(d, r, q)
                 /\ duration(r.time).ok
                 /\ duration(r.time).d >= q.MinDuration
                 /\ WithinMax(duration(r.time).d, q.MaxDuration)}
  IN  IF ~Balanced(QueryParens(q), 1, 0) THEN failure("syntax error")
      ELSE IF ~RangeOK(timeRange(q.StartTime, finishTime)) THEN failure("range")
      ELSE IF \E r \in computed : ~duration(r.time).ok
        THEN failure("integer out of range")
      ELSE [ids |-> LimitedIDs(rows, num), err |-> "nil"]

\* Storage.QueryTraces at the instant tnow, with no other transaction
\* committing meanwhile: the outcomes it may have.
QueryTraces(d, q, tnow, eager) ==
  LET r == QueryIDs(d, q, tnow, eager)
  IN  IF r.err # "nil" THEN {[traces |-> <<>>, err |-> r.err]}
      ELSE {[traces |-> traces, err |-> "nil"] :
            traces \in TracesOf(d, r.ids, 1)}

\* A call of Storage.QueryTraces
QueryTracesCall(q, eager) ==
  \E r \in QueryTraces(db, q, now, eager) :
    /\ op' = QueryCall("Storage.QueryTraces", q, r.err, r.traces)
    /\ UNCHANGED <<spans, finished, sampler, sampleCalls, lastSample, now>>
    /\ UNCHANGED shipperVars
    /\ UNCHANGED storageVars

\* The rows of a bag that refer to none of the deleted span ids.
Cascade(bag, deleted, refs) ==
  LET kept == {row \in DOMAIN bag : \A f \in refs : row[f] \notin deleted}
  IN  [row \in kept |-> bag[row]]

\* A Purge that goes by the end of the root's time range.
PurgeByEnd(d, before) ==
  LET purged == {r.trace_id : r \in {r \in d.spans :
                                      r.id = r.trace_id /\ r.time.End < before}}
      deleted == {r.id : r \in {r \in d.spans : r.trace_id \in purged}}
  IN  [spans |-> {r \in d.spans : r.trace_id \notin purged},
       tags |-> Cascade(d.tags, deleted, {"span_id", "trace_id"}),
       relations |-> Cascade(d.relations, deleted, {"span1_id", "span2_id"})]

\* The statement of Storage.Purge: DELETE FROM spans WHERE trace_id IN (the
\* trace_id of the rows with id = trace_id AND LOWER(time) < $1), with ON
\* DELETE CASCADE on the references of tags and relations.
Purge(d, before) ==
  LET purged == {r.trace_id : r \in {r \in d.spans :
                                      r.id = r.trace_id /\ r.time.Start < before}}
      deleted == {r.id : r \in {r \in d.spans : r.trace_id \in purged}}
  IN  [spans |-> {r \in d.spans : r.trace_id \notin purged},
       tags |-> Cascade(d.tags, deleted, {"span_id", "trace_id"}),
       relations |-> Cascade(d.relations, deleted, {"span1_id", "span2_id"})]

\* A call of Storage.Purge; one that fails leaves the tables alone.
PurgeCall(before, fails) ==
  /\ db' = IF fails THEN db ELSE Purge(db, before)
  /\ op' = QueryCall("Storage.Purge", before, IF fails THEN "exec" ELSE "nil", <<>>)
  /\ UNCHANGED <<spans, finished, sampler, sampleCalls, lastSample, now>>
  /\ UNCHANGED shipperVars
  /\ UNCHANGED history

\* The isolation level of a transaction of sql.DB.Begin is the default of
\* the server: each statement reads the tables as committed when it starts,
\* or every statement reads them as committed when the first one started.
IsolationLevels == {"read committed", "repeatable read"}

\* A query of the storage under way, as op holds it: the ids whose traces
\* are to be read, the traces read, the spans of the trace being read (in
\* part), the tables as the first statement of the transaction read them
\* (in first) and every committed state of the tables since the call began.
Running(name, arg, level, ids, seen) ==
  [name |-> name, arg |-> arg, err |-> "nil",
   out |-> [level |-> level, ids |-> ids, traces |-> <<>>, part |-> <<>>,
            first |-> <<>>, seen |-> seen]]

IsRunning(o) == o.name \in {"traceByID", "queryTraces"}

\* What op holds when the query has returned.
Finished(name, arg, err, level, traces, seen) ==
  [name |-> name, arg |-> arg, err |-> err,
   out |-> [level |-> level, traces |-> traces, seen |-> seen]]

\* The tables a statement of the running transaction reads.
Snapshot(o, d) ==
  IF o.out.level = "repeatable read" /\ o.out.first # <<>>
    THEN o.out.first[1] ELSE d

\* Storage.TraceByID: Begin
TraceByIDBegin(id, level) ==
  /\ ~IsRunning(op)
  /\ op' = Running("traceByID", id, level, <<id>>, <<db>>)
  /\ UNCHANGED <<spans, finished, sampler, sampleCalls, lastSample, now>>
  /\ UNCHANGED shipperVars
  /\ UNCHANGED storageVars

\* Storage.QueryTraces: Begin and the query for the ids, which is run by
\* st.db.Query, outside the transaction; with no ids, or with an error, the
\* call returns.
QueryTracesIDs(q, level, eager) ==
  /\ ~IsRunning(op)
  /\ LET r == QueryIDs(db, q, now, eager)
     IN  op' = IF r.err # "nil" \/ r.ids = <<>>
                 THEN Finished("QueryTraces", q, r.err, level, <<>>, <<db>>)
                 ELSE Running("queryTraces", q, level, r.ids, <<db>>)
  /\ UNCHANGED <<spans, finished, sampler, sampleCalls, lastSample, now>>
  /\ UNCHANGED shipperVars
  /\ UNCHANGED storageVars

\* traceByID: tx.Query(selectTrace) and scanSpans, for the next id.
SelectTraceStep ==
  /\ IsRunning(op)
  /\ op.out.part = <<>>
  /\ LET d == Snapshot(op, db)
         id == op.out.ids[Len(op.out.traces) + 1]
     IN  \E rows \in selectTrace(d, id) :
           op' = [op EXCEPT !.out.part = <<scanSpans(rows)>>,
                            !.out.first = IF @ = <<>> THEN <<db>> ELSE @]
  /\ UNCHANGED <<spans, finished, sampler, sampleCalls, lastSample, now>>
  /\ UNCHANGED shipperVars
  /\ UNCHANGED storageVars

\* traceByID: tx.Query(selectRelations) and the trace; after the last id
\* the call returns.
SelectRelationsStep ==
  /\ IsRunning(op)
  /\ op.out.part # <<>>
  /\ LET d == Snapshot(op, db)
         id == op.out.ids[Len(op.out.traces) + 1]
     IN  \E rels \in selectRelations(d, id) :
           LET trace == RawTrace(id, op.out.part[1],
                                 [i \in 1..Len(rels) |->
                                    RawRelation(rels[i].span1_id,
                                                rels[i].span2_id, rels[i].kind)])
               traces == Append(op.out.traces, trace)
           IN  op' = IF Len(traces) < Len(op.out.ids)
                       THEN [op EXCEPT !.out.traces = traces, !.out.part = <<>>]
                     ELSE IF op.name = "traceByID"
                       THEN Finished("TraceByID", op.arg, "nil", op.out.level,
                                     traces, op.out.seen)
                     ELSE Finished("QueryTraces", op.arg, "nil", op.out.level,
                                   traces, op.out.seen)
  /\ UNCHANGED <<spans, finished, sampler, sampleCalls, lastSample, now>>
  /\ UNCHANGED shipperVars
  /\ UNCHANGED storageVars

\* A running query sees one more committed state of the tables.
Seen(o, d) == IF IsRunning(o) THEN [o EXCEPT !.out.seen = Append(@, d)] ELSE o

\* Storage.Store by another client commits, whether a query is under way
\* or not.
CommitStore(sp, order) ==
  LET r == StorageStore(db, sp, order, 0)
  IN  /\ r.err = "nil"
      /\ db' = r.db
      /\ history' = Append(history, sp)
      /\ op' = Seen(op, r.db)
      /\ UNCHANGED <<spans, finished, sampler, sampleCalls, lastSample, now>>
      /\ UNCHANGED shipperVars

\* Storage.Purge by another client commits.
CommitPurge(before) ==
  /\ db' = Purge(db, before)
  /\ op' = Seen(op, Purge(db, before))
  /\ UNCHANGED <<spans, finished, sampler, sampleCalls, lastSample, now>>
  /\ UNCHANGED shipperVars
  /\ UNCHANGED history

\* pbutil.Timestamp: the zero time for nil, else ptypes.Timestamp, which
\* refuses an instant before 0001-01-01.
Timestamp(ts) ==
  IF ts = <<>> THEN [t |-> 0, err |-> "nil"]
  ELSE IF ~TimestampProtoOK(ts[1]) THEN [t |-> 0, err |-> "timestamp"]
  ELSE [t |-> ts[1], err |-> "nil"]

\* A pb.Tag on the wire; time is <<>> for nil.
WireTag(key, value, time) == [Key |-> key, Value |-> value, Time |-> time]

\* A pb.Span on the wire.
WireSpan(id, traceID, parentID, service, name, start, finish, tags) ==
  [SpanId |-> id, TraceId |-> traceID, ParentId |-> parentID, Flags |-> 0,
   ServiceName |-> service, OperationName |-> name,
   StartTime |-> start, FinishTime |-> finish, Tags |-> tags]

\* The loop of the server's GRPC.Store over the tags of a span from the
\* i-th on: tags with a time are appended to the logs, the others are set
\* in the tag map.
RECURSIVE FromWireTags(_, _, _)
FromWireTags(sp, tags, i) ==
  IF i > Len(tags) THEN [sp |-> sp, err |-> "nil"]
  ELSE LET tag == tags[i]
           t == Timestamp(tag.Time)
       IN  IF tag.Time # <<>>
             THEN IF t.err # "nil" THEN [sp |-> sp, err |-> t.err]
                  ELSE FromWireTags(
                         [sp EXCEPT !.Logs =
                            Append(@, LogData(tag.Key, Value("string", tag.Value),
                                              t.t))],
                         tags, i + 1)
             ELSE FromWireTags(
                    [sp EXCEPT !.Tags = (tag.Key :> Value("string", tag.Value)) @@ @],
                    tags, i + 1)

\* The RawSpan the server's GRPC.Store builds from a pb.Span, or the error
\* of a timestamp.
FromWire(span) ==
  LET st == Timestamp(span.StartTime)
      ft == Timestamp(span.FinishTime)
  IN  IF st.err # "nil" THEN [sp |-> ZeroSpan, err |-> st.err]
      ELSE IF ft.err # "nil" THEN [sp |-> ZeroSpan, err |-> ft.err]
      ELSE FromWireTags(RawSpan(span.SpanId, span.TraceId, span.ParentId,
                                span.Flags, span.ServiceName,
                                span.OperationName, st.t, ft.t, EmptyMap, <<>>),
                        span.Tags, 1)

\* The tables do not depend on the order in which Storage.Store visits the
\* tags of a span that it stores or fails to store as a whole.
TagOrder(sp) == CHOOSE order \in Orders(DOMAIN sp.Tags) : TRUE

\* A server loop that goes on to the next span when one has failed.
RECURSIVE ServerStoreSkipping(_, _, _, _, _)
ServerStoreSkipping(d, req, i, failSpan, done) ==
  IF i > Len(req) THEN [db |-> d, err |-> "nil", stored |-> done]
  ELSE LET c == FromWire(req[i])
           r == StorageStore(d, c.sp, TagOrder(c.sp), IF i = failSpan THEN 1 ELSE 0)
       IN  IF c.err # "nil"
             THEN ServerStoreSkipping(d, req, i + 1, failSpan, done)
           ELSE IF r.err # "nil"
             THEN ServerStoreSkipping(d, req, i + 1, failSpan, done)
           ELSE ServerStoreSkipping(r.db, req, i + 1, failSpan, Append(done, c.sp))

\* The server's GRPC.Store from the i-th span of the request on: the tables
\* afterwards, the error returned and the spans stored.  Storage.Store of
\* the failSpan-th span fails for a reason outside the tables.
RECURSIVE ServerStore(_, _, _, _, _)
ServerStore(d, req, i, failSpan, done) ==
  IF i > Len(req) THEN [db |-> d, err |-> "nil", stored |-> done]
  ELSE LET c == FromWire(req[i])
           r == StorageStore(d, c.sp, TagOrder(c.sp), IF i = failSpan THEN 1 ELSE 0)
       IN  IF c.err # "nil" THEN [db |-> d, err |-> c.err, stored |-> done]
           ELSE IF r.err # "nil" THEN [db |-> d, err |-> r.err, stored |-> done]
           ELSE ServerStore(r.db, req, i + 1, failSpan, Append(done, c.sp))

\* A call of the server's GRPC.Store
ServerStoreCall(req, failSpan) ==
  LET r == ServerStore(db, req, 1, failSpan, <<>>)
  IN  /\ db' = r.db
      /\ history' = history \o r.stored
      /\ op' = QueryCall("Server.Store", req, r.err, Len(r.stored))
      /\ UNCHANGED <<spans, finished, sampler, sampleCalls, lastSample, now>>
      /\ UNCHANGED shipperVars

InitStorage == db = EmptyDB /\ history = <<>>

-----------------------------------------------------------------------------
(* Specifications *)

\* The tracer NewTracer returns, with no span started yet, at the instant
\* tnow and with the sampler smp.
InitTracer(smp) ==
  /\ spans = <<>>
  /\ finished = {}
  /\ sampler = smp
  /\ sampleCalls = 0
  /\ lastSample = FALSE
  /\ now = Second
  /\ op = NoCall

\* The shipper NewGRPC returns.
InitGRPC ==
  /\ ch = <<>>
  /\ queue = <<>>
  /\ stored = 0
  /\ dropped = 0
  /\ loopPC = "select"
  /\ pbs = <<>>
  /\ tick = FALSE
  /\ calls = 0
  /\ taken = 0
  /\ sent = EmptyMap
  /\ flushErr = "none"

(* The shipper alone: callers of Store, the worker, the ticker, the RPC. *)

\* The spans given to Store in the shipper's specification: the n-th call
\* carries a span with SpanID n, whose start time converts to a protobuf
\* timestamp or does not.
ShipSpans(n) ==
  { RawSpan(n, n, 0, FlagSampled, ServiceName, "op", start, 2 * Second,
            EmptyMap, <<>>)
      : start \in {Second, -1} }

InitShipper == InitGRPC /\ InitTracer(ConstSampler(TRUE)) /\ InitStorage

NextShipper ==
  \/ \E sp \in ShipSpans(calls + 1) : StoreCall(sp)
  \/ LoopRecv
  \/ LoopTick
  \/ \E ok \in BOOLEAN : RPCReturn(ok)
  \/ TickerFire

SpecShipper == InitShipper /\ [][NextShipper]_vars

\* The worker and the ticker keep running and every RPC returns.  A select
\* with several ready cases picks one at random, so a case that is ready
\* again and again is taken in the end.
FairShipper ==
  /\ SF_vars(LoopRecv)
  /\ SF_vars(LoopTick)
  /\ WF_vars(\E ok \in BOOLEAN : RPCReturn(ok))
  /\ WF_vars(TickerFire)

\* The spans of the fair runs: every third one has a start time that does not
\* convert.
LiveSpans(n) ==
  { RawSpan(n, n, 0, FlagSampled, ServiceName, "op",
            IF n % 3 = 0 THEN -1 ELSE Second, 2 * Second, EmptyMap, <<>>) }

NextLive ==
  \/ \E sp \in LiveSpans(calls + 1) : StoreCall(sp)
  \/ LoopRecv
  \/ LoopTick
  \/ \E ok \in BOOLEAN : RPCReturn(ok)
  \/ TickerFire

LiveShipper == InitShipper /\ [][NextLive]_vars /\ FairShipper

(* Spans and their mutators: each span is used by one execution, which   *)
(* calls Finish last, as the opentracing Span interface requires.         *)

\* How many spans the model starts.
MaxSpans == 2

Unfinished == {s \in 1..Len(spans) : s \notin finished}

TagValues == {Value("number", "1"), Value("other", "[]")}

Payloads == {Nil, Value("other", "[]")}

InitSpan ==
  /\ InitGRPC
  /\ InitStorage
  /\ \E smp \in {ConstSampler(FALSE), ProbabilisticSampler(50)} :
       InitTracer(smp)

NextSpan ==
  \/ /\ Len(spans) < MaxSpans
     /\ \E draw \in {0, 99} :
          StartSpanCall("a", StartSpanOptions(0, <<>>, EmptyMap),
                        Len(spans) + 1, draw, "none", ZeroContext)
  \/ \E s \in Unfinished : SetOperationNameCall(s, "b")
  \/ \E s \in Unfinished, v \in TagValues : SetTagCall(s, "k", v)
  \/ \E s \in Unfinished, v \in Payloads :
       /\ spans[s].Logs = <<>>
       /\ \/ LogCall(s, LogData("e", v, 0))
          \/ LogEventWithPayloadCall(s, "e", v)
  \/ \E s \in Unfinished : spans[s].Logs = <<>> /\ LogEventCall(s, "e")
  \/ \E s \in Unfinished : FinishCall(s)
  \/ \E s \in Unfinished, bulk \in {<<>>, <<LogData("f", Nil, 0)>>} :
       FinishWithOptionsCall(s, FinishOptions(2 * Second, bulk))

SpecSpan == InitSpan /\ [][NextSpan]_vars

(* Starting spans: roots, children of local spans, children of contexts  *)
(* that crossed a process boundary, and server spans of the interceptor.  *)

\* The IDs the random generator may hand out next: one not seen before, or
\* the one it handed out first.
IDs == {1, Len(spans) + 1}

\* A context injected by a peer that runs another tracer.
ForeignContexts == {SpanContext(7, 5, 6, 3, "user" :> "u1")}

StartTags == {EmptyMap, "sampling.priority" :> Value("number", "1")}

\* The contexts Span.Context() and a peer can hand out.
Contexts == {Context(spans[p]) : p \in 1..Len(spans)} \cup ForeignContexts

InitLineage ==
  /\ InitGRPC
  /\ InitStorage
  /\ \E smp \in {ConstSampler(TRUE), ConstSampler(FALSE),
                 ProbabilisticSampler(25), RateSampler(1, Second)} :
       InitTracer(smp)

\* The outcomes of extracting what textInjecter wrote for c that carry no
\* error.
TextRoundTrip(c) == {r \in textExtracter(textInjecter(c)) : r.err = "nil"}

\* The same for binaryInjecter and binaryExtracter.
BinaryRoundTrip(c) ==
  {r \in {binaryExtracter(b) : b \in binaryInjecter(c)} : r.err = "nil"}

NextLineage ==
  \/ /\ Len(spans) < MaxSpans
     /\ \/ \E id \in IDs, tags \in StartTags, draw \in {0, 99} :
             StartSpanCall("a", StartSpanOptions(0, <<>>, tags), id, draw,
                           "none", ZeroContext)
        \/ \E p \in 1..Len(spans) : \E id \in IDs, tags \in StartTags :
             StartSpanCall("a",
                           StartSpanOptions(0, <<Context(spans[p])>>, tags),
                           id, 0, "local", Context(spans[p]))
        \/ \E c \in Contexts : \E r \in TextRoundTrip(c) :
             \E id \in IDs, tags \in StartTags :
               StartSpanCall("a", StartSpanOptions(0, <<r.ctx>>, tags),
                             id, 0, "text", c)
        \/ \E c \in Contexts : \E r \in BinaryRoundTrip(c) :
             \E id \in IDs, tags \in StartTags :
               StartSpanCall("a", StartSpanOptions(0, <<r.ctx>>, tags),
                             id, 0, "binary", c)
  \/ /\ Len(spans) < MaxSpans
     /\ \E md \in {EmptyMap} \cup {grpcInjecter(c) : c \in Contexts} :
          \E id \in IDs, fails \in BOOLEAN :
            UnaryInterceptor(md, id, 0, fails)
  \/ now = Second /\ ClockAdvance(2 * Second)

SpecLineage == InitLineage /\ [][NextLineage]_vars

(* The propagation codecs on their own: contexts injected and extracted   *)
(* again, payloads cut short, and carriers filled by a peer.              *)

\* The contexts given to the injecters.
CodecContexts ==
  { SpanContext(t, p, 1, f, b) :
      t \in {0, 3, 258}, p \in {0, 2}, f \in {0, FlagSampled, 3},
      b \in { EmptyMap, ("k1" :> "v1") @@ ("k2" :> ""), "Key" :> "V",
              "" :> "x" } }

\* A carrier that presents the tracer-* names in upper case; what follows
\* the tracer-baggage- prefix is presented as it was set.
UpperNames(carrier) ==
  LET Name(k) == IF HasPrefix(k, "tracer-baggage-")
                   THEN ToUpper(SubSeq(k, 1, 15)) \o SubSeq(k, 16, Len(k))
                   ELSE ToUpper(k)
  IN  [n \in {Name(k) : k \in DOMAIN carrier} |->
         carrier[CHOOSE k \in DOMAIN carrier : Name(k) = n]]

\* Text-map carriers filled by a peer: the trace id and the span id are
\* absent, zero, well formed, shorter than 16 hexadecimal characters or no
\* hexadecimal number.
IDTexts == {"absent", "0000000000000000", "0000000000000003", "3", "xyz"}

TextCarriers ==
  { [k \in {n \in {"tracer-traceid", "tracer-spanid"} :
              (IF n = "tracer-traceid" THEN t ELSE sid) # "absent"} |->
       IF k = "tracer-traceid" THEN t ELSE sid]
    : t \in IDTexts, sid \in IDTexts }

\* Binary payloads made by a peer: a header that announces one baggage item,
\* followed by arbitrary KeyLen and ValueLen fields and one more byte.
LenFields ==
  { PutUint64(0), PutUint64(1), [i \in 1..8 |-> 255],
    [i \in 1..8 |-> IF i = 1 THEN 64 ELSE 0] }

BinaryCarriers ==
  { PutUint64(t) \o PutUint64(1) \o PutUint64(0) \o PutUint64(0)
      \o PutUint64(1) \o kl \o vl \o <<65>>
    : t \in {0, 3}, kl \in LenFields, vl \in LenFields }

\* What op holds after an extraction: the context that was injected (or
\* NilContext for a peer's carrier), the complete carrier, the carrier that
\* was read and the outcome.
CodecCall(name, c, full, carrier, out) ==
  [name |-> name, in |-> c, full |-> full, carrier |-> carrier, out |-> out]

\* textExtracter on a carrier; the extracters keep no state, so a run
\* makes one call.
TextExtractCall(c, carrier) ==
  /\ op = NoCall
  /\ \E r \in textExtracter(carrier) :
       op' = CodecCall("TextExtract", c, carrier, carrier,
                       [ctx |-> r.ctx, err |-> r.err])
  /\ UNCHANGED <<spans, finished, sampler, sampleCalls, lastSample, now>>
  /\ UNCHANGED shipperVars
  /\ UNCHANGED storageVars

\* binaryExtracter on a reader that holds the first cut bytes of full
BinaryExtractCall(c, full, cut) ==
  /\ op = NoCall
  /\ op' = CodecCall("BinaryExtract", c, full, SubSeq(full, 1, cut),
                     binaryExtracter(SubSeq(full, 1, cut)))
  /\ UNCHANGED <<spans, finished, sampler, sampleCalls, lastSample, now>>
  /\ UNCHANGED shipperVars
  /\ UNCHANGED storageVars

InitCodec == InitGRPC /\ InitTracer(ConstSampler(TRUE)) /\ InitStorage

NextCodec ==
  \/ \E c \in CodecContexts : TextExtractCall(c, textInjecter(c))
  \/ \E c \in CodecContexts : TextExtractCall(c, UpperNames(textInjecter(c)))
  \/ \E carrier \in TextCarriers : TextExtractCall(NilContext, carrier)
  \/ \E c \in CodecContexts : \E b \in binaryInjecter(c) :
       \E cut \in 0..Len(b) : BinaryExtractCall(c, b, cut)
  \/ \E b \in BinaryCarriers : BinaryExtractCall(NilContext, b, Len(b))

SpecCodec == InitCodec /\ [][NextCodec]_vars

(* One span given values of every kind, in each way a value can be       *)
(* supplied, by a tracer that samples it.                                  *)

InitValues == InitGRPC /\ InitTracer(ConstSampler(TRUE)) /\ InitStorage

NextValues ==
  \/ /\ spans = <<>>
     /\ \E tags \in {EmptyMap} \cup {"t" :> v : v \in TagValues} :
          StartSpanCall("a", StartSpanOptions(0, <<>>, tags), 1, 0, "none",
                        ZeroContext)
  \/ \E s \in Unfinished, k \in {"k", "t"}, v \in TagValues \cup {Nil} :
       SetTagCall(s, k, v)
  \/ \E s \in Unfinished, v \in Payloads :
       /\ Len(spans[s].Logs) < 2
       /\ \/ LogCall(s, LogData("e", v, 0))
          \/ LogEventWithPayloadCall(s, "e", v)
  \/ \E s \in Unfinished : FinishCall(s)
  \/ \E s \in Unfinished :
       \E bulk \in {<<>>} \cup {<<LogData("f", v, 0)>> : v \in Payloads} :
         FinishWithOptionsCall(s, FinishOptions(0, bulk))

SpecValues == InitValues /\ [][NextValues]_vars

-----------------------------------------------------------------------------
(* The storage: spans of one trace stored in any order, stored again, failing *)

MaxStores == 3

\* The greatest rate of a rate sampler, and how many times it is asked.
MaxRate == 3
MaxSamples == 8

\* How many IDs the generator is asked for.
MaxIDs == 2

\* The trace of scenario S5 and the spans that come with it.
SpanA == RawSpan(1, 1, 0, FlagSampled, "svc", "A", 1, 4,
                 "k" :> Value("number", "1"),
                 <<LogData("e", Value("number", "1"), 2)>>)
SpanA2 == RawSpan(1, 1, 0, FlagSampled, "svc2", "A2", 2, 5,
                  "k" :> Value("number", "1"),
                  <<LogData("e", Value("number", "1"), 2)>>)
SpanB == RawSpan(2, 1, 1, FlagSampled, "svc", "B", 2, 3,
                 ("k" :> Value("string", "v")) @@ ("n" :> Nil), <<>>)
SpanC == RawSpan(3, 1, 2, FlagSampled, "svc", "C", 3, 3, EmptyMap,
                 <<LogData("e", Nil, 3), LogData("f", Value("string", "x"), 3)>>)
SpanCEmpty == RawSpan(3, 1, 2, FlagSampled, "svc", "C", 3, 3,
                      "" :> Value("string", "x"), <<LogData("", Nil, 3)>>)
SpanOrphan == RawSpan(5, 9, 0, FlagSampled, "svc", "O", 1, 2,
                      "k" :> Value("string", "v"), <<>>)

StoredSpans == {SpanA, SpanA2, SpanB, SpanC, SpanCEmpty, SpanOrphan}

TraceIDs == {sp.TraceID : sp \in {SpanA}}

InitStore == InitGRPC /\ InitTracer(ConstSampler(TRUE)) /\ InitStorage

NextStorage ==
  \/ /\ Len(history) < MaxStores
     /\ \E sp \in StoredSpans : \E order \in Orders(DOMAIN sp.Tags) :
          \E failAt \in 0..(Len(Statements(sp, order)) + 1) :
            StorageStoreCall(sp, order, failAt)
  \/ \E id \in TraceIDs : TraceByIDCall(id)

SpecStorage == InitStore /\ [][NextStorage]_vars

-----------------------------------------------------------------------------
(* The storage queried: three traces, one of them with a root that lasts  *)
(* longer than two seconds, and a span whose parent is in another trace.   *)

RootHello == RawSpan(1, 1, 0, FlagSampled, "svc", "a", 1, 2,
                     "url" :> Value("string", "/hello"), <<>>)
RootBoth == RawSpan(2, 2, 0, FlagSampled, "svc", "b", 2, 4,
                    ("url" :> Value("string", "/hello"))
                      @@ ("k" :> Value("string", "v")), <<>>)
RootLong == RawSpan(3, 3, 0, FlagSampled, "svc", "a", 3, 3003,
                    "url" :> Value("string", "/bye"), <<>>)
SpanAcross == RawSpan(4, 1, 2, FlagSampled, "svc", "c", 2, 2, EmptyMap, <<>>)

QueriedSpans == {RootHello, RootBoth, RootLong, SpanAcross}

\* Every field zero; every trace that ended by 5000; the latest one of
\* them; a time range, an operation name and duration bounds that admit the
\* long root; the tag url=/hello.
Queries ==
  {Query(0, 0, "", 0, 0, <<>>, <<>>, 0),
   Query(0, 5000, "", 0, 0, <<>>, <<>>, 0),
   Query(0, 5000, "", 0, 0, <<>>, <<>>, 1),
   Query(1, 5000, "a", 1, 4000, <<>>, <<>>, 0),
   Query(0, 10, "", 0, 0, <<QueryTag("url", "/hello", TRUE)>>, <<>>, 0)}

QueriedIDs == {2, 4}

PurgeTimes == {2, 3}

NextQuery ==
  \/ \E sp \in QueriedSpans : \E order \in Orders(DOMAIN sp.Tags) :
       /\ \A i \in 1..Len(history) : history[i] # sp
       /\ StorageStoreCall(sp, order, 0)
  \/ \E id \in QueriedIDs : TraceByIDCall(id)
  \/ \E id \in QueriedIDs : SpanByIDCall(id)
  \/ \E q \in Queries : \E eager \in BOOLEAN : QueryTracesCall(q, eager)
  \/ \E before \in PurgeTimes : \E fails \in BOOLEAN : PurgeCall(before, fails)

SpecQuery == InitStore /\ [][NextQuery]_vars

-----------------------------------------------------------------------------
(* Queries of the storage while other clients store and purge *)

ChildHello == RawSpan(5, 1, 1, FlagSampled, "svc", "c", 1, 2, EmptyMap, <<>>)

SnapshotSpans == {RootHello, RootBoth, ChildHello}

SnapshotQueries == {Query(0, 5000, "", 0, 0, <<>>, <<>>, 0)}

NextSnapshot ==
  \/ \E sp \in SnapshotSpans : \E order \in Orders(DOMAIN sp.Tags) :
       /\ \A i \in 1..Len(history) : history[i] # sp
       /\ CommitStore(sp, order)
  \/ /\ Purge(db, 2) # db
     /\ CommitPurge(2)
  \/ \E level \in IsolationLevels : TraceByIDBegin(1, level)
  \/ \E q \in SnapshotQueries : \E level \in IsolationLevels :
       \E eager \in BOOLEAN : QueryTracesIDs(q, level, eager)
  \/ SelectTraceStep
  \/ SelectRelationsStep

SpecSnapshot == InitStore /\ [][NextSnapshot]_vars

-----------------------------------------------------------------------------
(* The ID generator asked for IDs *)

\* What rand.Read may draw: the model's IDs are below 2^32, so the four
\* high bytes are 0.
Draws == {<<0, 0, 0, 0, a, b, c, d>> : a, b, c, d \in {0, 1}}

NextID ==
  \/ /\ op.name = "GenerateID" => Len(op.ids) < MaxIDs
     /\ GenerateIDCall
  \/ \E draw \in Draws : \E n \in {0, 7, 8} : GenerateIDRound(draw, n)

SpecID == InitStore /\ [][NextID]_vars

-----------------------------------------------------------------------------
(* Spans that are used after Finish, beside the worker of the shipper *)

LateTags == {EmptyMap, "k" :> Value("string", "v")}

NextLate ==
  \/ /\ Len(spans) < MaxSpans
     /\ op.name # "SetTag.write"
     /\ \E tags \in LateTags :
          StartSpanCall("op", StartSpanOptions(0, <<>>, tags), Len(spans) + 1,
                        0, "none", ZeroContext)
  \/ \E s \in Unfinished : op.name # "SetTag.write" /\ FinishCall(s)
  \/ \E s \in finished :
       \/ SetTagEnter(s, "late", Value("string", "x"))
       \/ /\ op.name # "SetTag.write"
          /\ spans[s].OperationName = "op"
          /\ SetOperationNameCall(s, "renamed")
       \/ /\ op.name # "SetTag.write"
          /\ spans[s].Logs = <<>>
          /\ LogCall(s, LogData("late", Nil, 0))
  \/ SetTagWrite
  \/ LoopRecv
  \/ LoopTick
  \/ \E ok \in BOOLEAN : RPCReturn(ok)
  \/ TickerFire

SpecLate == InitShipper /\ [][NextLate]_vars

-----------------------------------------------------------------------------
(* The ingestion endpoint: batches of wire spans, some of which do not    *)
(* decode and some of which the storage refuses.                           *)

WireRoot == WireSpan(1, 1, 0, "svc", "a", <<1>>, <<4>>,
                     <<WireTag("url", "/hello", <<>>), WireTag("e", "x", <<2>>)>>)
WireChild == WireSpan(2, 1, 1, "svc", "b", <<2>>, <<3>>,
                      <<WireTag("e", "y", <<3>>), WireTag("k", "v", <<>>)>>)
WireNoTimes == WireSpan(3, 3, 0, "svc", "c", <<>>, <<>>, <<>>)
WireBadStart == WireSpan(4, 1, 1, "svc", "d", <<-1>>, <<3>>, <<>>)
WireBadTag == WireSpan(5, 1, 1, "svc", "e", <<2>>, <<3>>,
                       <<WireTag("e", "z", <<-1>>)>>)
WireBackwards == WireSpan(6, 1, 1, "svc", "f", <<3>>, <<2>>, <<>>)

WireSpans ==
  {WireRoot, WireChild, WireNoTimes, WireBadStart, WireBadTag, WireBackwards}

\* The requests: one span, or two different spans.
Batches ==
  {<<a>> : a \in WireSpans}
    \cup {pair \in WireSpans \X WireSpans : pair[1] # pair[2]}

NextIngest ==
  /\ Len(history) < MaxStores
  /\ \E req \in Batches : \E failSpan \in 0..Len(req) :
       ServerStoreCall(req, failSpan)

SpecIngest == InitStore /\ [][NextIngest]_vars

-----------------------------------------------------------------------------
(* The rate sampler asked again and again, as TestRateSampler does: the   *)
(* clock stands still but for one step of two seconds.                    *)

\* The count of the loop: how many calls preceded the step of the clock
\* (-1 before it) and how many calls have returned true.
Tally(switchedAt, trues) == [name |-> "Sample", arg |-> switchedAt,
                             err |-> "nil", out |-> trues]

\* The sampler as NewRateSampler leaves it, or with l.t set to the instant
\* of the clock as the test does.
InitRate ==
  /\ InitGRPC
  /\ InitStorage
  /\ spans = <<>>
  /\ finished = {}
  /\ sampleCalls = 0
  /\ lastSample = FALSE
  /\ now = Second
  /\ op = Tally(-1, 0)
  /\ \E n \in 1..MaxRate :
       sampler \in {RateSampler(n, Second),
                    [RateSampler(n, Second) EXCEPT !.t = Second]}

\* One turn of the loop: s.Sample(1), counted when true.
SampleCall ==
  /\ sampleCalls < MaxSamples
  /\ Sample(0)
  /\ op' = [op EXCEPT !.out = IF lastSample' THEN @ + 1 ELSE @]
  /\ UNCHANGED <<spans, finished, now>>
  /\ UNCHANGED shipperVars
  /\ UNCHANGED storageVars

\* nowFn is switched to t2, two seconds on, once.
SwitchClock ==
  /\ op.arg = -1
  /\ now' = now + 2 * Second
  /\ op' = [op EXCEPT !.arg = sampleCalls]
  /\ UNCHANGED <<spans, finished, sampler, sampleCalls, lastSample>>
  /\ UNCHANGED shipperVars
  /\ UNCHANGED storageVars

NextRate == SampleCall \/ SwitchClock

SpecRate == InitRate /\ [][NextRate]_vars

-----------------------------------------------------------------------------
(* The rate limiter under a clock that moves by any step, back as well   *)
(* as on.  Allow holds the limiter's lock from beginning to end, so the    *)
(* calls of concurrent executions happen one after the other.              *)

\* The steps of the clock, and the instants it stays within.
ClockSteps == {-500, 400, Second}

LastInstant == 3 * Second

InitLimiter ==
  /\ InitGRPC
  /\ InitStorage
  /\ spans = <<>>
  /\ finished = {}
  /\ sampleCalls = 0
  /\ lastSample = FALSE
  /\ now = Second
  /\ op = Tally(-1, 0)
  /\ \E n \in 0..MaxRate : sampler = RateSampler(n, Second)

NextLimiter ==
  \/ SampleCall
  \/ \E d \in ClockSteps :
       /\ now + d >= 0
       /\ now + d <= LastInstant
       /\ ClockAdvance(d)

SpecLimiter == InitLimiter /\ [][NextLimiter]_vars

-----------------------------------------------------------------------------
(* The shipper's properties *)

InCh(n) == \E i \in 1..Len(ch) : ch[i].SpanID = n

InQueue(n) == \E i \in 1..Len(queue) : queue[i].SpanID = n

\* C1: Store never blocks, whatever the state of the channel and of the
\* worker: a call is possible in every state; with room in the channel it
\* appends the span and adds one to stored, otherwise it leaves the channel
\* alone and adds one to dropped; stored + dropped is the number of calls.
C1_StoreNeverBlocks ==
  /\ [](stored + dropped = calls)
  /\ [](calls < MaxCalls =>
          \A sp \in ShipSpans(calls + 1) : ENABLED StoreCall(sp))
  /\ [][calls' = calls + 1 =>
          IF Len(ch) < 2 * QueueSize
            THEN /\ Len(ch') = Len(ch) + 1
                 /\ SubSeq(ch', 1, Len(ch)) = ch
                 /\ stored' = stored + 1
                 /\ dropped' = dropped
            ELSE /\ ch' = ch
                 /\ stored' = stored
                 /\ dropped' = dropped + 1]_vars

\* Store has accepted spans and has dropped spans while the worker is
\* blocked in the RPC of a flush.
C1_Witness == loopPC = "rpc" /\ stored > 0 /\ dropped > 0 /\ Len(ch) = ChCap

\* C2: 3N Store calls while the worker takes nothing give
\* stored + dropped = 3N and stored <= 2N, for N = QueueSize.
C2_Overflow ==
  (calls = 3 * QueueSize /\ taken = 0) =>
    (stored + dropped = 3 * QueueSize /\ stored <= 2 * QueueSize)

C2_Witness == calls = 3 * QueueSize /\ taken = 0 /\ dropped = QueueSize

\* C3: every flush leaves the pending batch empty, whether its RPC succeeds
\* or fails, and no span is put in more than one RPC request.
C3_AtMostOnce ==
  /\ [](\A id \in DOMAIN sent : sent[id] <= 1)
  /\ [][(loopPC = "select" /\ loopPC' = "rpc") => queue' = <<>>]_vars
  /\ [][(loopPC = "rpc" /\ loopPC' = "select") => queue' = <<>>]_vars

\* The RPC of a flush with spans in its request has failed, the batch is
\* empty and the worker is back in its select.
C3_Witness ==
  loopPC = "select" /\ flushErr = "err" /\ pbs # <<>> /\ queue = <<>>

\* C4: every span accepted into the intake channel leaves the channel and
\* the pending batch, if the worker and the ticker keep running and every
\* RPC returns.
C4_EventuallyFlushed ==
  \A n \in 1..MaxCalls : (InCh(n) \/ InQueue(n)) ~> ~(InCh(n) \/ InQueue(n))

\* All accepted spans have left, the last of them in a batch that was not
\* full, which only a tick flushes.
C4_Witness ==
  /\ stored > 0 /\ taken = stored /\ queue = <<>> /\ ch = <<>>
  /\ stored % QueueSize # 0

\* The step is the worker's flush: it goes from its select into the RPC.
FlushStep == loopPC = "select" /\ loopPC' = "rpc"

\* The batch that the flush of the step converts: the pending batch, with
\* the span just received when the flush is that of a full batch.
Batch == IF ch' # ch THEN Append(queue, Head(ch)) ELSE queue

\* C34: a flush drops the spans of the batch whose start or finish time
\* does not convert and puts all the others, in their order, in its one
\* request; the batch is empty afterwards, so no span stays to stand in the
\* way of later flushes.
C34_ConversionDropsOneSpan ==
  [][FlushStep =>
       LET good == SelectSeq(Batch, LAMBDA sp : sp.StartTime >= 0
                                                /\ sp.FinishTime >= 0)
       IN  /\ Len(pbs') = Len(good)
           /\ \A i \in 1..Len(good) :
                /\ pbs'[i].SpanId = good[i].SpanID
                /\ pbs'[i].StartTime = good[i].StartTime
                /\ pbs'[i].FinishTime = good[i].FinishTime
           /\ queue' = <<>>]_vars

\* The first flush was that of a full batch whose first span did not
\* convert: the others are in the request.
C34_Witness ==
  /\ loopPC = "rpc"
  /\ flushErr = "none"
  /\ taken = QueueSize
  /\ Len(pbs) = QueueSize - 1
  /\ 1 \notin DOMAIN sent
  /\ queue = <<>>

\* C35: the pending batch never holds more than QueueSize spans, nor the
\* intake channel more than twice as many.
C35_BuffersBounded ==
  /\ Len(queue) <= QueueSize
  /\ Len(ch) <= 2 * QueueSize

\* After a flush that dropped a span in conversion and whose RPC failed, the
\* channel is full and the batch one short of a flush.
C35_Witness ==
  /\ flushErr = "err"
  /\ DOMAIN sent = {}
  /\ taken = QueueSize
  /\ Len(queue) = QueueSize - 1
  /\ Len(ch) = 2 * QueueSize

\* C36: the stored counter is the number of spans in the channel, in the
\* batch and taken out by flushes: every accepted span is in the channel or
\* was received by the worker, a received span joins the batch, and a
\* flush takes out the whole batch, each span of it either sent or dropped
\* in conversion.  A flush and the return of its RPC, with or without an
\* error, leave the stored and dropped counters alone.
C36_SpansConserved ==
  /\ stored = Len(ch) + taken
  /\ taken = Len(queue)
  /\ [][/\ stored' = Len(ch') + taken'
        /\ (taken' - taken) + Len(queue)
             = Len(queue') + (IF FlushStep THEN Len(Batch) ELSE 0)
        /\ FlushStep =>
             Len(Batch) = Len(pbs') + Cardinality({i \in 1..Len(Batch) :
                                                     ~SpanConvOK(Batch[i])})
        /\ (FlushStep \/ (loopPC = "rpc" /\ loopPC' = "select")) =>
             (stored' = stored /\ dropped' = dropped)
       ]_vars

\* A full batch was sent and its RPC failed: its spans are counted as
\* stored, none as dropped, and they are nowhere in the shipper.
C36_Witness ==
  /\ loopPC = "select"
  /\ flushErr = "err"
  /\ Len(pbs) = QueueSize
  /\ dropped = 0
  /\ queue = <<>>
  /\ Len(ch) > 0
  /\ stored = QueueSize + Len(ch)

-----------------------------------------------------------------------------
(* Properties of spans and of the tracer *)

\* The call the step makes is name on the span s.
CallOn(name, s) == op' = Call(name, s, "none", ZeroContext, EmptyMap)

FinishNames == {"Finish", "FinishWithOptions"}

MutatorNames ==
  {"SetOperationName", "SetTag", "Log", "LogEvent", "LogEventWithPayload",
   "FinishWithOptions"}

\* C5: Finish and FinishWithOptions on a span whose Sampled() is false make
\* no Store call: the stored and dropped counters and the intake channel
\* are unchanged.
C5_UnsampledNotShipped ==
  [][\A s \in 1..Len(spans) : \A name \in FinishNames :
       (s \in finished' \ finished /\ CallOn(name, s) /\ ~sampled(spans[s]))
         => UNCHANGED <<calls, stored, dropped, ch>>]_vars

\* FinishWithOptions has finished a span that is not sampled, and Finish
\* another one.
C5_Witness ==
  /\ op.name = "FinishWithOptions"
  /\ op.span \in finished
  /\ ~sampled(spans[op.span])
  /\ \E s \in finished : s # op.span /\ ~sampled(spans[s])

\* C6: on a span whose Sampled() is false every mutator (SetOperationName,
\* SetTag, Log, LogEvent, LogEventWithPayload, the bulk log data of
\* FinishWithOptions) is a no-op: operation name, tags, logs and finish
\* time are after the call what they were before it.
C6_UnsampledMutatorsNoOp ==
  [][\A s \in 1..Len(spans) : \A name \in MutatorNames :
       (CallOn(name, s) /\ ~sampled(spans[s]))
         => /\ spans'[s].OperationName = spans[s].OperationName
            /\ spans'[s].Tags = spans[s].Tags
            /\ spans'[s].Logs = spans[s].Logs
            /\ spans'[s].FinishTime = spans[s].FinishTime]_vars

\* The span the last StartSpan call returned.
Started == spans[op.span]

\* C7: a span started with a parent reference has the parent's TraceID, the
\* parent's SpanID as its ParentID and the parent's Flags, hence the
\* parent's sampled status, for a parent context from Context() and for one
\* that went through Inject and Extract, text or binary.
C7_ChildInheritsParent ==
  (op.name = "StartSpan" /\ op.via \in {"local", "text", "binary"}) =>
    /\ Started.TraceID = op.ref.TraceID
    /\ Started.ParentID = op.ref.SpanID
    /\ Started.Flags = op.ref.Flags
    /\ sampled(Started) = sampled(op.ref)

\* A child of a sampled context with baggage that crossed a process
\* boundary in the text format, started by a tracer that samples nothing.
C7_Witness ==
  /\ op.name = "StartSpan" /\ op.via = "text"
  /\ op.ref \in ForeignContexts
  /\ sampled(Started)
  /\ sampler = ConstSampler(FALSE)

HasPriority(tags) ==
  /\ "sampling.priority" \in DOMAIN tags
  /\ tags["sampling.priority"] = Value("number", "1")

\* C9: a span created with the tag sampling.priority >= 1 in its StartSpan
\* options is sampled, whatever the sampler says.
C9_PriorityForcesSampled ==
  (op.name = "StartSpan" /\ op.via = "none" /\ HasPriority(op.tags)) =>
    sampled(Started)

\* C10: every span StartSpan returns has a non-zero SpanID and a non-zero
\* TraceID, whatever the options, the context the interceptor passes on
\* included; a span started without a reference has TraceID = SpanID and
\* ParentID = 0.
C10_NonZeroIDs ==
  \A s \in 1..Len(spans) :
    /\ spans[s].SpanID # 0
    /\ spans[s].TraceID # 0
    /\ (op.name = "StartSpan" /\ op.via = "none" /\ op.span = s) =>
         (spans[s].TraceID = spans[s].SpanID /\ spans[s].ParentID = 0)

-----------------------------------------------------------------------------
(* Properties of the propagation codecs *)

\* The last call extracted what an injecter wrote for a context.
Injected == op.in # NilContext

\* C11: for a context with TraceID # 0, text-map injection into an empty
\* carrier followed by extraction gives a context equal to it in TraceID,
\* SpanID, ParentID, Flags and the whole baggage (empty values included),
\* also when the carrier presents the tracer-* names in another letter
\* case; each baggage key keeps its spelling.
C11_TextRoundTrip ==
  (op.name = "TextExtract" /\ Injected /\ op.in.TraceID # 0) =>
    (op.out.err = "nil" /\ op.out.ctx = op.in)

\* A context with a mixed-case baggage key came back from a carrier with
\* upper-case names.
C11_Witness ==
  /\ op.name = "TextExtract" /\ Injected /\ op.in.TraceID # 0
  /\ "Key" \in DOMAIN op.in.Baggage
  /\ "TRACER-TRACEID" \in DOMAIN op.carrier
  /\ op.out.ctx = op.in

\* C12: for a context with TraceID # 0 and non-empty baggage keys, binary
\* injection followed by extraction of the bytes written gives a context
\* equal to it in TraceID, SpanID, ParentID, Flags and the whole baggage.
C12_BinaryRoundTrip ==
  (/\ op.name = "BinaryExtract" /\ Injected /\ op.carrier = op.full
   /\ op.in.TraceID # 0 /\ "" \notin DOMAIN op.in.Baggage) =>
    (op.out.err = "nil" /\ op.out.ctx = op.in)

\* The context of scenario S2, two baggage items of which one has an empty
\* value, came back.
C12_Witness ==
  /\ op.name = "BinaryExtract" /\ Injected /\ op.carrier = op.full
  /\ op.in.TraceID = 258
  /\ DOMAIN op.in.Baggage = {"k1", "k2"}
  /\ op.out.ctx = op.in

\* C13: extraction from a valid binary payload cut at any offset before its
\* end fails with "span context not found".
C13_TruncationNotFound ==
  (op.name = "BinaryExtract" /\ Injected /\ Len(op.carrier) < Len(op.full))
    => op.out.err = "ErrSpanContextNotFound"

\* The carrier holds no TraceID, or one that parses to 0.
NoTraceID ==
  IF op.name = "TextExtract"
    THEN \A k \in KeysFor(LowerKeys(op.carrier), "tracer-traceid") :
           ~idFromHexPanics(op.carrier[k]) /\ idFromHex(op.carrier[k]) = 0
    ELSE Len(op.carrier) < 8 \/ SubSeq(op.carrier, 1, 8) = PutUint64(0)

\* C14: extraction from a carrier whose TraceID is absent or parses to 0
\* fails with "span context not found", in the text-map format and in the
\* binary format alike.
C14_NoTraceIDNotFound ==
  (op.name \in {"TextExtract", "BinaryExtract"} /\ NoTraceID
   /\ op.out.err # "panic")
    => op.out.err = "ErrSpanContextNotFound"

\* C15: no extraction panics, whatever the carrier holds.
C15_NeverPanics ==
  op.name \in {"TextExtract", "BinaryExtract"} => op.out.err # "panic"

\* C16: a tag value or log payload whose kind is not boolean, number,
\* string or null never reaches the shipper, whichever way it was supplied:
\* the RawSpan handed to Store holds no such value.
C16_UnsupportedNeverShipped ==
  \A i \in 1..Len(ch) :
    /\ \A k \in DOMAIN ch[i].Tags : valueType(ch[i].Tags[k])
    /\ \A j \in 1..Len(ch[i].Logs) : valueType(ch[i].Logs[j].Payload)

-----------------------------------------------------------------------------
(* Properties of the relational storage *)

\* The step is a call of Storage.Store that returned nil.
Stored == op'.name = "Storage.Store" /\ op'.err = "nil" /\ history' # history

\* The number of copies of a row in a bag of rows.
Copies(bag, row) == IF row \in DOMAIN bag THEN bag[row] ELSE 0

\* The tags rows a span asks for, each with the number of times it does.
TagRowsOf(sp) ==
  LET tagRows == {TagRow(sp.SpanID, sp.TraceID, k, Stringify(sp.Tags[k]), NullTime) :
                    k \in DOMAIN sp.Tags}
      logRow(l) == TagRow(sp.SpanID, sp.TraceID, l.Event, Stringify(l.Payload),
                          <<l.Timestamp>>)
      logRows == {logRow(sp.Logs[j]) : j \in 1..Len(sp.Logs)}
  IN  [row \in tagRows \cup logRows |->
         (IF row \in tagRows THEN 1 ELSE 0)
         + Cardinality({j \in 1..Len(sp.Logs) : logRow(sp.Logs[j]) = row})]

\* C17: Storage.Store is all-or-nothing.  A call that returns an error,
\* whichever statement failed or the commit, leaves the tables spans, tags
\* and relations exactly as they were; a call that returns nil leaves the
\* span's row, its relation and every one of its tag and log rows.
C17_StoreAllOrNothing ==
  [][/\ (op'.name = "Storage.Store" /\ op'.err # "nil") => db' = db
     /\ Stored =>
          LET sp == op'.span
              rows == TagRowsOf(sp)
          IN  /\ sp.SpanID \in SpanIDs(db')
              /\ \A row \in DOMAIN rows :
                   Copies(db'.tags, row) = Copies(db.tags, row) + rows[row]
              /\ sp.ParentID # 0 =>
                   Copies(db'.relations, RelationRow(sp.ParentID, sp.SpanID))
                     = Copies(db.relations, RelationRow(sp.ParentID, sp.SpanID)) + 1
    ]_vars

\* A Store failed on a foreign key after its upsert had been executed, in a
\* database that held rows already.
C17_Witness ==
  /\ op.name = "Storage.Store"
  /\ op.err = "foreign key"
  /\ op.span = SpanOrphan
  /\ db.spans # {}

\* C18: the table spans holds one row per SpanID; a Store of a SpanID that
\* is present replaces the row's time range, service name and operation
\* name, and no Store deletes a tag or log row, so that every Store of a
\* span adds one more copy of each of its tags and logs.
C18_OneRowPerSpan ==
  [][/\ \A r1, r2 \in db'.spans : r1.id = r2.id => r1 = r2
     /\ Stored =>
          LET sp == op'.span
              rows == TagRowsOf(sp)
          IN  /\ \A r \in RowsByID(db', sp.SpanID) :
                   /\ r.time = timeRange(sp.StartTime, sp.FinishTime)
                   /\ r.service_name = sp.ServiceName
                   /\ r.operation_name = sp.OperationName
              /\ RowsByID(db', sp.SpanID) # {}
              /\ \A row \in DOMAIN db.tags \cup DOMAIN rows :
                   Copies(db'.tags, row)
                     = Copies(db.tags, row)
                       + (IF row \in DOMAIN rows THEN rows[row] ELSE 0)
    ]_vars

\* A span was stored, and then stored again with other times and names: its
\* row holds the new ones and each of its tags and logs has two copies.
C18_Witness ==
  /\ history = <<SpanA, SpanA2>>
  /\ db.spans = {SpanRow(1, 1, timeRange(2, 5), "svc2", "A2")}
  /\ \A row \in DOMAIN TagRowsOf(SpanA) : Copies(db.tags, row) = 2

\* Every relations row and every tags row refers to rows of spans.
ForeignKeys(d) ==
  /\ \A r \in DOMAIN d.relations :
       r.span1_id \in SpanIDs(d) /\ r.span2_id \in SpanIDs(d)
  /\ \A t \in DOMAIN d.tags :
       t.span_id \in SpanIDs(d) /\ t.trace_id \in SpanIDs(d)

\* C19: whatever the order of arrival, the rows of relations and tags refer
\* to existing span rows.  A Store of a child whose parent is absent leaves a
\* placeholder parent (empty time range, empty names) and, if the trace root
\* is absent, a placeholder root; a Store of a span whose row is a
\* placeholder replaces its fields; no Store changes the row of another
\* span that is already there.
C19_PlaceholdersKeepIntegrity ==
  [][/\ ForeignKeys(db')
     /\ Stored =>
          LET sp == op'.span
          IN  /\ (sp.ParentID # 0 /\ sp.ParentID \notin SpanIDs(db)
                  /\ sp.ParentID # sp.SpanID)
                   => SpanRow(sp.ParentID, sp.TraceID, timeRange(0, 0), "", "")
                        \in db'.spans
              /\ (sp.ParentID # 0 /\ sp.TraceID \notin SpanIDs(db)
                  /\ sp.TraceID \notin {sp.SpanID, sp.ParentID})
                   => \E r \in RowsByID(db', sp.TraceID) :
                        r.service_name = "" /\ r.operation_name = ""
              /\ \A r \in db.spans : r.id # sp.SpanID => r \in db'.spans
              /\ SpanRow(sp.SpanID,
                         IF sp.SpanID \in SpanIDs(db)
                           THEN (CHOOSE r \in RowsByID(db, sp.SpanID) : TRUE).trace_id
                           ELSE sp.TraceID,
                         timeRange(sp.StartTime, sp.FinishTime),
                         sp.ServiceName, sp.OperationName) \in db'.spans
    ]_vars

\* The grandchild arrived first and left a placeholder parent and a
\* placeholder root; then the child arrived and took the parent's place.
C19_Witness ==
  /\ history = <<SpanC, SpanB>>
  /\ db.spans = {SpanRow(3, 1, timeRange(3, 3), "svc", "C"),
                 SpanRow(2, 1, timeRange(2, 3), "svc", "B"),
                 SpanRow(1, 1, timeRange(3, 3), "", "")}

\* The spans stored are a trace: they share the TraceID, each was stored
\* once, the root is among them and so is every parent.
IsTrace(stored_, id) ==
  LET set == {stored_[i] : i \in 1..Len(stored_)}
  IN  /\ \A sp \in set : sp.TraceID = id
      /\ \A i, j \in 1..Len(stored_) :
           stored_[i].SpanID = stored_[j].SpanID => i = j
      /\ \E sp \in set : sp.SpanID = id /\ sp.ParentID = 0
      /\ \A sp \in set :
           sp.ParentID # 0 => \E parent \in set : parent.SpanID = sp.ParentID

\* The logs of a span as a bag of (event, text, timestamp).
LogBag(logs, text(_)) ==
  LET item(l) == <<l.Event, text(l.Payload), l.Timestamp>>
      items == {item(logs[j]) : j \in 1..Len(logs)}
  IN  [x \in items |-> Cardinality({j \in 1..Len(logs) : item(logs[j]) = x})]

\* The trace TraceByID returned is the trace that was stored.
SameTrace(stored_, trace) ==
  LET set == {stored_[i] : i \in 1..Len(stored_)}
      got == {trace.Spans[i] : i \in 1..Len(trace.Spans)}
      rels == {trace.Relations[i] : i \in 1..Len(trace.Relations)}
  IN  /\ Len(trace.Spans) = Cardinality(set)
      /\ {sp.SpanID : sp \in got} = {sp.SpanID : sp \in set}
      /\ \A sp \in set : \A g \in got :
           g.SpanID = sp.SpanID =>
             /\ DOMAIN g.Tags = DOMAIN sp.Tags
             /\ \A k \in DOMAIN sp.Tags : Sprint(g.Tags[k]) = Stringify(sp.Tags[k])
             /\ LogBag(g.Logs, Sprint) = LogBag(sp.Logs, Stringify)
      /\ Len(trace.Relations) = Cardinality(rels)
      /\ rels = {RawRelation(sp.ParentID, sp.SpanID, "parent") :
                   sp \in {sp \in set : sp.ParentID # 0}}

\* C20: after the spans of a trace have each been stored once, in any
\* order, TraceByID returns exactly those spans, each with its tags and logs
\* as text, and exactly the relations from each parent to its child.
C20_StoreTraceByIDRoundTrip ==
  (op.name = "Storage.TraceByID" /\ IsTrace(history, op.trace.TraceID))
    => SameTrace(history, op.trace)

\* C39: the relations table holds each (parent, child) pair once at most,
\* so the trace that TraceByID returns lists no relation twice.
C39_OneRelationPerPair ==
  /\ \A r \in DOMAIN db.relations : db.relations[r] <= 1
  /\ op.name = "Storage.TraceByID" =>
       \A i, j \in 1..Len(op.trace.Relations) :
         op.trace.Relations[i] = op.trace.Relations[j] => i = j

-----------------------------------------------------------------------------
(* Properties of the queries and of Purge.  Every call that changes the    *)
(* tables sets op, so while op holds a query the tables are those it read. *)

\* The traces the last call returned.
ReturnedTraces ==
  IF op.name = "Storage.TraceByID" THEN {op.trace}
  ELSE IF op.name = "Storage.QueryTraces"
    THEN {op.out[i] : i \in 1..Len(op.out)}
  ELSE {}

\* C21: in every trace that TraceByID or QueryTraces returns, whatever the
\* ids of the spans stored, the ChildID of every relation is the SpanID of
\* a span of that trace.
C21_ChildrenInTrace ==
  \A t \in ReturnedTraces :
    \A i \in 1..Len(t.Relations) :
      \E j \in 1..Len(t.Spans) : t.Spans[j].SpanID = t.Relations[i].ChildID

\* C22: TraceByID of a trace id without span and SpanByID of a span id
\* without span both return an error.
C22_AbsentIsNotFound ==
  /\ (op.name = "Storage.TraceByID"
      /\ \A r \in db.spans : r.trace_id # op.trace.TraceID) => op.err # "nil"
  /\ (op.name = "Storage.SpanByID" /\ op.arg \notin SpanIDs(db)) => op.err # "nil"

\* C23: the span SpanByID returns is the span TraceByID returns for it in
\* its trace, with all of its tags and logs.
C23_SpanByIDWhole ==
  (op.name = "Storage.SpanByID" /\ op.err = "nil") =>
    \E t \in traceByID(db, op.out.TraceID) :
      \E i \in 1..Len(t.Spans) : t.Spans[i] = op.out

\* The query has no tag predicates.
NoTags(q) == Len(q.AndTags) + Len(q.OrTags) = 0

\* The traces whose root row passes the conditions of q on time range,
\* operation name and duration, zero standing for no constraint.
RootsMatching(q) ==
  {r \in db.spans :
     /\ r.id = r.trace_id
     /\ q.StartTime <= r.time.Start
     /\ r.time.End <= (IF q.FinishTime = 0 THEN now ELSE q.FinishTime)
     /\ (q.OperationName = "" \/ r.operation_name = q.OperationName)
     /\ q.MinDuration <= r.time.End - r.time.Start
     /\ (q.MaxDuration = 0 \/ r.time.End - r.time.Start <= q.MaxDuration)}

\* The tag and log rows of the trace match the predicates of q.
TagsMatching(q, id) ==
  LET rows == {t \in DOMAIN db.tags : t.trace_id = id}
      matched(tag) ==
        \E t \in rows : t.key = tag.Key /\ (tag.CheckValue => t.value = tag.Value)
  IN  /\ \A i \in 1..Len(q.AndTags) : matched(q.AndTags[i])
      /\ Len(q.OrTags) > 0 => \E i \in 1..Len(q.OrTags) : matched(q.OrTags[i])

\* The call returned the traces with these ids, each as TraceByID gives it.
Returned(ids) ==
  /\ op.err = "nil"
  /\ {op.out[i].TraceID : i \in 1..Len(op.out)} = ids
  /\ Len(op.out) = Cardinality(ids)
  /\ \A i \in 1..Len(op.out) : op.out[i] \in traceByID(db, op.out[i].TraceID)

\* C24: without tag predicates and without limit, QueryTraces returns
\* exactly the traces whose root has its time range inside [StartTime,
\* FinishTime], the operation name asked for if one is, and a duration from
\* MinDuration to MaxDuration, both included; each as TraceByID gives it.
C24_QueryByRoot ==
  (op.name = "Storage.QueryTraces" /\ NoTags(op.arg) /\ op.arg.Num = 0
   /\ op.arg.MaxDuration # 0)
    => Returned({r.trace_id : r \in RootsMatching(op.arg)})

\* C25: with tag predicates, QueryTraces returns a trace that passes the
\* other conditions exactly when the rows of that trace match every AndTags
\* entry and, if there are OrTags, one of them.
C25_QueryByTags ==
  (op.name = "Storage.QueryTraces" /\ ~NoTags(op.arg) /\ op.arg.Num = 0)
    => Returned({r.trace_id : r \in {r \in RootsMatching(op.arg) :
                                       TagsMatching(op.arg, r.trace_id)}})

\* C26: QueryTraces returns at most Num traces: when more match, those Num
\* whose roots are the latest; and the list is in ascending order of root
\* time, then of trace id.
C26_LimitKeepsLatest ==
  (op.name = "Storage.QueryTraces" /\ NoTags(op.arg) /\ op.arg.Num > 0) =>
    LET matching == RootsMatching(op.arg)
        root(id) == CHOOSE r \in matching : r.trace_id = id
        ids == {op.out[i].TraceID : i \in 1..Len(op.out)}
    IN  /\ op.err = "nil"
        /\ Len(op.out) <= op.arg.Num
        /\ ids \subseteq {r.trace_id : r \in matching}
        /\ Len(op.out) = Cardinality(ids)
        /\ Cardinality(matching) <= op.arg.Num => Len(op.out) = Cardinality(matching)
        /\ Cardinality(matching) > op.arg.Num =>
             /\ Len(op.out) = op.arg.Num
             /\ \A r \in matching :
                  r.trace_id \notin ids =>
                    \A id \in ids : ~Before(root(id), r) \/ root(id).time = r.time
        /\ \A i, j \in 1..Len(op.out) :
             i < j => Before(root(op.out[i].TraceID), root(op.out[j].TraceID))

\* C27: a zero MaxDuration excludes no trace however long its root lasted, a
\* zero Num sets no limit, and a zero FinishTime stands for now.
C27_ZeroIsNoConstraint ==
  (op.name = "Storage.QueryTraces" /\ NoTags(op.arg) /\ op.arg.Num = 0
   /\ op.arg.MaxDuration = 0)
    => Returned({r.trace_id : r \in RootsMatching(op.arg)})

Rootless(d, stores) ==
  {r.trace_id : r \in d.spans} \ {stores[i].SpanID : i \in 1..Len(stores)}

\* C33: Purge, whatever the instant given, leaves a trace whose root span
\* was never stored as it was: its rows of spans, and the rows of tags and
\* relations that refer to them.
C33_PlaceholderRootsKept ==
  [][(op'.name = "Storage.Purge" /\ op'.err = "nil") =>
       \A id \in Rootless(db, history) :
         LET rows == {r \in db.spans : r.trace_id = id}
             ids == {r.id : r \in rows}
         IN  /\ rows \subseteq db'.spans
             /\ \A t \in DOMAIN db.tags :
                  t.span_id \in ids => Copies(db'.tags, t) = db.tags[t]
             /\ \A r \in DOMAIN db.relations :
                  (r.span1_id \in ids \/ r.span2_id \in ids)
                    => Copies(db'.relations, r) = db.relations[r]
    ]_vars

-----------------------------------------------------------------------------
(* Properties of spans used after Finish *)

\* C38: a mutator called on a span after Finish leaves the RawSpans in the
\* shipper as they were, and the worker does not flush a RawSpan while
\* SetTag is writing the tag map it shares.
C38_QueuedSpanIsSnapshot ==
  [][/\ (op'.name \in {"SetTag", "Log", "SetOperationName"} /\ op' # op
         /\ op'.span \in finished)
          => (ch' = ch /\ queue' = queue)
     /\ ~(/\ FlushStep
          /\ op.name = "SetTag.write"
          /\ \E i \in 1..Len(Batch) :
               Batch[i].SpanID = spans[op.span].SpanID
               /\ Batch[i].Tags # EmptyMap)
    ]_vars

-----------------------------------------------------------------------------
(* Properties of the ingestion endpoint *)

\* The tables after each span of a sequence has been stored.
RECURSIVE StoreAll(_, _)
StoreAll(d, rawSpans) ==
  IF rawSpans = <<>> THEN d
  ELSE StoreAll(StorageStore(d, Head(rawSpans), TagOrder(Head(rawSpans)), 0).db,
                Tail(rawSpans))

\* The span holds the wire tags with a time as its logs, in their order, and
\* those without as its tags.
SplitByTime(sp, wire) ==
  LET timed == SelectSeq(wire.Tags, LAMBDA tag : tag.Time # <<>>)
      plain == SelectSeq(wire.Tags, LAMBDA tag : tag.Time = <<>>)
  IN  /\ Len(sp.Logs) = Len(timed)
      /\ \A i \in 1..Len(timed) :
           /\ sp.Logs[i].Event = timed[i].Key
           /\ Sprint(sp.Logs[i].Payload) = timed[i].Value
           /\ sp.Logs[i].Timestamp = timed[i].Time[1]
      /\ DOMAIN sp.Tags = {plain[i].Key : i \in 1..Len(plain)}
      /\ \A i \in 1..Len(plain) :
           \E j \in 1..Len(plain) :
             plain[j].Key = plain[i].Key
             /\ Sprint(sp.Tags[plain[i].Key]) = plain[j].Value

\* C29: the ingestion endpoint stores the spans of a request in order, each
\* in a transaction of its own.  When the k-th span does not decode or is
\* not stored, the error is returned, the spans before it are stored, and
\* neither it nor the spans after it are.  Of each span, the wire tags with
\* a time become logs and those without become tags.
C29_BatchStopsAtFailure ==
  [][op'.name = "Server.Store" /\ (op' # op \/ history' # history) =>
       LET req == op'.arg
           k == Len(history') - Len(history)
           done == SubSeq(history', Len(history) + 1, Len(history'))
       IN  /\ SubSeq(history', 1, Len(history)) = history
           /\ k = op'.out
           /\ k <= Len(req)
           /\ op'.err = "nil" <=> k = Len(req)
           /\ \A j \in 1..k :
                /\ done[j].SpanID = req[j].SpanId
                /\ done[j].TraceID = req[j].TraceId
                /\ done[j].ParentID = req[j].ParentId
                /\ SplitByTime(done[j], req[j])
           /\ db' = StoreAll(db, done)
    ]_vars

\* A request of two spans whose second did not decode: the first is stored,
\* with its timed tag as a log and its other tag as a tag, and the error is
\* returned.
C29_Witness ==
  /\ op.name = "Server.Store"
  /\ op.arg = <<WireRoot, WireBadTag>>
  /\ op.err = "timestamp"
  /\ op.out = 1
  /\ history = <<RawSpan(1, 1, 0, 0, "svc", "a", 1, 4,
                         "url" :> Value("string", "/hello"),
                         <<LogData("e", Value("string", "x"), 2)>>)>>
  /\ SpanIDs(db) = {1}

-----------------------------------------------------------------------------
(* Properties of the rate sampler *)

AtMost(k, n) == IF k < n THEN k ELSE n

\* C30: a rate sampler of rate n returns true n times among the calls made
\* while the clock stands still, however many are made beyond n, and 2n
\* times when the clock steps on by two seconds once, with n calls or more
\* on either side of the step; with fewer calls on a side, all of them
\* return true.
C30_RateWindows ==
  op.name = "Sample" =>
    LET n == sampler.rate
        first == IF op.arg = -1 THEN sampleCalls ELSE op.arg
        second == sampleCalls - first
    IN  /\ op.out = AtMost(first, n) + AtMost(second, n)
        /\ op.arg = -1 /\ sampleCalls >= n => op.out = n
        /\ op.arg >= n /\ second >= n => op.out = 2 * n

\* The sampler of rate 3 was asked four times, then the clock stepped on,
\* then it was asked four times: six calls returned true and the last did
\* not.
C30_Witness ==
  /\ op.name = "Sample"
  /\ sampler.rate = 3
  /\ op.arg = 4
  /\ sampleCalls = 8
  /\ op.out = 6
  /\ now = 3 * Second
  /\ ~lastSample

-----------------------------------------------------------------------------
(* Properties of queries that run beside other transactions *)

\* C31: what one call of TraceByID or of QueryTraces returns is what it
\* would return from one of the committed states the tables had during the
\* call, with no other transaction committing meanwhile.
C31_ConsistentSnapshot ==
  /\ op.name = "TraceByID" =>
       \E i \in 1..Len(op.out.seen) :
         op.out.traces[1] \in traceByID(op.out.seen[i], op.arg)
  /\ op.name = "QueryTraces" =>
       \E i \in 1..Len(op.out.seen) : \E eager \in BOOLEAN :
         [traces |-> op.out.traces, err |-> op.err]
           \in QueryTraces(op.out.seen[i], op.arg, now, eager)

-----------------------------------------------------------------------------
(* Properties of the ID generator *)

\* C32: GenerateID never returns 0: a draw of 0, or a buffer that rand.Read
\* left at 0, sends the loop round again.
C32_GeneratedNonZero ==
  op.name \in {"GenerateID", "GenerateID.loop"} =>
    /\ \A i \in 1..Len(op.ids) : op.ids[i] # 0
    /\ op.name = "GenerateID" => Uint64(op.b) = op.ids[Len(op.ids)]
    /\ op.name = "GenerateID.loop" => Uint64(op.b) = 0

\* The generator has returned an ID, and in the second call has drawn 0 and
\* gone round again.
C32_Witness ==
  /\ op.name = "GenerateID.loop"
  /\ Len(op.ids) = 1
  /\ op.ids[1] # 0
  /\ op.again
  /\ op.b = <<0, 0, 0, 0, 0, 0, 0, 0>>

\* The tokens of the limiter once the time since its reference instant has
\* been turned into tokens: none while the clock is not past that instant.
Refilled ==
  LET add == IF now > sampler.t
               THEN ((now - sampler.t) * sampler.rate) \div Second ELSE 0
  IN  AtMost(sampler.tokens + add, sampler.rate)

\* C37: the tokens of the rate limiter stay within 0..rate; Allow returns
\* true exactly when there is a token after the refill, and then takes one;
\* when it returns false the tokens are left as the refill made them.
C37_TokensWithinRate ==
  /\ sampler.tokens \in 0..sampler.rate
  /\ [][/\ sampler'.tokens \in 0..sampler'.rate
        /\ sampleCalls' = sampleCalls + 1 =>
             /\ lastSample' <=> Refilled > 0
             /\ sampler'.tokens = IF lastSample' THEN Refilled - 1 ELSE Refilled
             /\ sampler'.rate = sampler.rate
       ]_vars

\* The limiter of rate 3 gave its three tokens, refused a call, and after
\* 400 ms gave the one token that this time is worth and refused again.
C37_Witness ==
  /\ sampler.rate = 3
  /\ now = 2 * Second + 400
  /\ sampler.t = now
  /\ sampler.tokens = 0
  /\ op.out = 4
  /\ ~lastSample
  /\ sampleCalls = 6

-----------------------------------------------------------------------------
(* Properties of the order of arrival *)

\* The spans stored have different IDs: each was stored once.
StoredOnce ==
  \A i, j \in 1..Len(history) : history[i].SpanID = history[j].SpanID => i = j

\* C40: when each span of a set has been stored once, the tables are what
\* storing the same spans in any other order gives.
C40_ArrivalOrderIndependent ==
  StoredOnce =>
    \A o \in Orders({history[i] : i \in 1..Len(history)}) :
      StoreAll(EmptyDB, o) = db

=============================================================================
